---------------------------- MODULE Spec2Model ----------------------------
(***************************************************************************)
(* A model of pyrogram's Client (src/pyrogram/client/client.py): the       *)
(* start/stop life cycle with its download workers and updates worker,     *)
(* the updates worker's per-channel pts history, and the peer directory    *)
(* (fetch_peers / resolve_peer / send).                                    *)
(*                                                                         *)
(* The client runs on one asyncio event loop: a coroutine runs without     *)
(* interruption from one await to the next, so an action of the model is   *)
(* the code between two suspension points of one task.                     *)
(***************************************************************************)
EXTENDS Integers, Sequences, FiniteSets, TLC

(***************************************************************************)
(* Bounds of the model.                                                    *)
(***************************************************************************)
\* size of the download worker pool (Client.DOWNLOAD_WORKERS, set in BaseClient)
DOWNLOAD_WORKERS == 2
\* download requests enqueued in one run of the life-cycle model
MaxRequests == 1
\* update envelopes enqueued in one run of the life-cycle model
MaxEnvelopes == 2
\* distinct pts values the server hands out in the pts-history model
MaxPts == 60
\* entities in one entity list (a response's users, a response's chats)
MaxEntities == 1

(***************************************************************************)
(* Program constants.                                                      *)
(***************************************************************************)
\* client.py:999   if len(self.channels_pts[channel_id]) > 50
HistoryLimit == 50
\* client.py:1000  self.channels_pts[channel_id][25:]
HistoryDrop == 25

(***************************************************************************)
(* Values.                                                                 *)
(***************************************************************************)
\* Python's None where an integer is expected (access_hash, channel_id, pts)
None == -1
\* Python's None where a string is expected (username, phone); strings are
\* sequences of characters and this one holds no character
NoneStr == <<"None">>
\* the None put on a queue as the poison value
Poison == [type |-> "None"]

VARIABLES
    is_started,               \* Client.is_started
    session,                  \* Client.session: "none", "created", "started", "stopped"
    takeout_id,               \* Client.takeout_id (None or an id)
    startPc,                  \* where a running start() is suspended
    stopPc,                   \* where a running stop() is suspended
    download_worker_tasks,    \* Client.download_worker_tasks: sequence of worker ids
    dlWorker,                 \* state of each download_worker() task
    dlCur,                    \* the request each download worker is processing
    updates_worker_task,      \* state of the updates_worker() task
    updCur,                   \* the envelope the updates worker is processing
    updIdx,                   \* index of the next update of updCur
    download_queue,           \* Client.download_queue
    updates_queue,            \* Client.updates_queue
    dispatcher_updates_queue, \* Client.dispatcher.updates_queue
    media_sessions,           \* Client.media_sessions: dc_id -> session state
    doneEvents,               \* download requests whose done event is set
    channels_pts,             \* Client.channels_pts: channel_id -> list of pts
    peers_by_id,              \* Client.peers_by_id
    peers_by_username,        \* Client.peers_by_username
    peers_by_phone,           \* Client.peers_by_phone
    lastOp,                   \* the last call made on the client and its outcome
    nRequests,                \* download requests enqueued so far
    nEnvelopes,               \* envelopes enqueued so far
    nextPts,                  \* the next fresh pts of the server (pts-history model)
    saving,                   \* the running or last call of Client.save_file: its locals
    getting,                  \* the running or last call of Client.get_file: its locals
                              \* and the files it leaves
    starting,                 \* the session file, the attributes start() loads and
                              \* saves, and the running or last authorization
    media_sessions_lock,      \* Client.media_sessions_lock: the call that holds it
    fetching,                 \* the concurrent calls of Client.get_file: the position
                              \* of each before its transfer, and the sessions created
    updCalls                  \* history: the difference fetches updates_worker()
                              \* awaited, each with its outcome

lifeVars == <<is_started, session, takeout_id, startPc, stopPc>>
workerVars == <<download_worker_tasks, dlWorker, dlCur, updates_worker_task, updCur, updIdx>>
queueVars == <<download_queue, updates_queue>>
peerVars == <<peers_by_id, peers_by_username, peers_by_phone>>
countVars == <<nRequests, nEnvelopes, nextPts>>
callVars == <<saving, getting, starting, media_sessions_lock, fetching, updCalls>>
vars == <<lifeVars, workerVars, queueVars, dispatcher_updates_queue, media_sessions,
          doneEvents, channels_pts, peerVars, lastOp, countVars, callVars>>

(***************************************************************************)
(* Decimal text of integers: int("-100" + str(channel_id)) and             *)
(* str(peer_id).startswith("-100") work on the decimal digits.             *)
(***************************************************************************)
RECURSIVE Digits(_)
\* len(str(n)) for n >= 0
Digits(n) == IF n < 10 THEN 1 ELSE 1 + Digits(n \div 10)

RECURSIVE Pow10(_)
Pow10(k) == IF k = 0 THEN 1 ELSE 10 * Pow10(k - 1)

\* int("-100" + str(channel_id)) for channel_id >= 0
ChannelPeerId(channel_id) == -(100 * Pow10(Digits(channel_id)) + channel_id)

\* -chat_id
ChatPeerId(chat_id) == -chat_id


(***************************************************************************)
(* Strings the caller passes to resolve_peer are sequences of characters,  *)
(* so that re.sub(r"[@+\s]", "", peer_id.lower()) and int(peer_id) are     *)
(* computed.  Usernames and phones of entities are sequences too.          *)
(***************************************************************************)
\* str.lower() on one character
LowerChar(c) == CASE c = "B" -> "b" [] c = "O" -> "o" [] OTHER -> c

\* str.lower()
Lower(s) == [i \in 1..Len(s) |-> LowerChar(s[i])]

\* the characters re.sub(r"[@+\s]", "", ...) removes
IsStripped(c) == c \in {"@", "+", " "}

\* a mutant of Normalize: the string is not lowercased
NormalizeNoLower(s) == SelectSeq(s, LAMBDA c : ~IsStripped(c))

\* re.sub(r"[@+\s]", "", peer_id.lower())
Normalize(s) == SelectSeq(Lower(s), LAMBDA c : ~IsStripped(c))

\* int(peer_id) succeeds: optional sign, then at least one digit, digits only
IsDigit(c) == c \in {"0", "1", "2", "3", "4", "5", "6", "7", "8", "9"}
ParsesAsInt(s) ==
    LET t == IF Len(s) > 0 /\ s[1] = "-" THEN Tail(s) ELSE s
    IN  Len(t) > 0 /\ \A i \in 1..Len(t) : IsDigit(t[i])

(***************************************************************************)
(* The peer directory: three maps, modelled as functions whose domain is   *)
(* the set of keys present.                                                *)
(***************************************************************************)
EmptyMap == [k \in {} |-> None]

\* d[k] = v on a dict
Put(d, k, v) == [x \in DOMAIN d \cup {k} |-> IF x = k THEN v ELSE d[x]]

\* types.InputPeerUser / InputPeerChat / InputPeerChannel
InputPeerUser(user_id, access_hash) ==
    [type |-> "InputPeerUser", id |-> user_id, access_hash |-> access_hash]
InputPeerChat(chat_id) ==
    [type |-> "InputPeerChat", id |-> chat_id, access_hash |-> None]
InputPeerChannel(channel_id, access_hash) ==
    [type |-> "InputPeerChannel", id |-> channel_id, access_hash |-> access_hash]

\* the three maps as one value
Peers(byId, byUsername, byPhone) == [id |-> byId, username |-> byUsername, phone |-> byPhone]

\* a mutant of FetchUser: the entity is stored although access_hash is None
FetchUserNoSkip(m, e) ==
    LET input_peer == InputPeerUser(e.id, e.access_hash)
    IN  Peers(Put(m.id, e.id, input_peer),
              IF e.username # NoneStr THEN Put(m.username, Lower(e.username), input_peer)
                                       ELSE m.username,
              IF e.phone # NoneStr THEN Put(m.phone, e.phone, input_peer) ELSE m.phone)

\* fetch_peers, one entity that is a types.User
FetchUser(m, e) ==
    IF e.access_hash = None
    THEN m
    ELSE LET input_peer == InputPeerUser(e.id, e.access_hash)
         IN  Peers(Put(m.id, e.id, input_peer),
                   IF e.username # NoneStr
                   THEN Put(m.username, Lower(e.username), input_peer)
                   ELSE m.username,
                   IF e.phone # NoneStr THEN Put(m.phone, e.phone, input_peer) ELSE m.phone)

\* fetch_peers, one entity that is a types.Chat or types.ChatForbidden
FetchChat(m, e) ==
    Peers(Put(m.id, ChatPeerId(e.id), InputPeerChat(e.id)), m.username, m.phone)

\* a mutant of FetchChannel: a key of the primary map that is taken is kept
FetchChannelKeepsFirst(m, e) ==
    IF e.access_hash = None \/ ChannelPeerId(e.id) \in DOMAIN m.id
    THEN m
    ELSE LET input_peer == InputPeerChannel(e.id, e.access_hash)
         IN  Peers(Put(m.id, ChannelPeerId(e.id), input_peer),
                   IF e.username # NoneStr
                   THEN Put(m.username, Lower(e.username), input_peer)
                   ELSE m.username,
                   m.phone)

\* fetch_peers, one entity that is a types.Channel or types.ChannelForbidden
FetchChannel(m, e) ==
    IF e.access_hash = None
    THEN m
    ELSE LET input_peer == InputPeerChannel(e.id, e.access_hash)
         IN  Peers(Put(m.id, ChannelPeerId(e.id), input_peer),
                   IF e.username # NoneStr
                   THEN Put(m.username, Lower(e.username), input_peer)
                   ELSE m.username,
                   m.phone)

\* the body of fetch_peers' loop
FetchEntity(m, e) ==
    CASE e.type = "User" -> FetchUser(m, e)
      [] e.type \in {"Chat", "ChatForbidden"} -> FetchChat(m, e)
      [] e.type \in {"Channel", "ChannelForbidden"} -> FetchChannel(m, e)
      [] OTHER -> m

RECURSIVE FetchPeersOf(_, _)
\* fetch_peers(entities) applied to the maps m
FetchPeersOf(m, entities) ==
    IF entities = <<>> THEN m
    ELSE FetchPeersOf(FetchEntity(m, Head(entities)), Tail(entities))

\* the directory of the current state
CurPeers == Peers(peers_by_id, peers_by_username, peers_by_phone)

\* the directory after the state change
SetPeers(m) ==
    /\ peers_by_id' = m.id
    /\ peers_by_username' = m.username
    /\ peers_by_phone' = m.phone

(***************************************************************************)
(* Entities the server sends.                                              *)
(***************************************************************************)
UserIds == {1}
ChatIds == {1, 1001}
ChannelIds == {1}

\* types.User: with and without access hash
UserEntities ==
    [type : {"User"}, id : UserIds, access_hash : {None, 11},
     username : {<<"B", "o", "b">>}, phone : {<<"3", "9">>}]
\* types.Chat
ChatEntities ==
    [type : {"Chat"}, id : ChatIds, access_hash : {None},
     username : {NoneStr}, phone : {NoneStr}]
\* types.Channel: with and without access hash
ChannelEntities ==
    [type : {"Channel"}, id : ChannelIds, access_hash : {None, 12},
     username : {<<"b", "o", "b">>}, phone : {NoneStr}]
Entities == UserEntities \cup ChatEntities \cup ChannelEntities

\* lists of at most n elements of S
RECURSIVE SeqsUpTo(_, _)
SeqsUpTo(S, n) ==
    IF n = 0 THEN {<<>>}
    ELSE LET shorter == SeqsUpTo(S, n - 1)
         IN  shorter \cup {Append(q, x) : q \in shorter, x \in S}


(***************************************************************************)
(* Calls and their outcomes.                                               *)
(***************************************************************************)
\* what a call on the client returned or raised: op is the method, arg its
\* argument, err the exception raised ("" when it returned), ret the value
\* returned, remote the number of remote calls it issued through send()
Outcome(op, arg, err, ret, remote) ==
    [op |-> op, arg |-> arg, err |-> err, ret |-> ret, remote |-> remote]

NoArg == <<>>
NoOp == Outcome("none", NoArg, "", NoArg, 0)

\* the data center of a fresh session (load_session: self.dc_id = 1)
OwnDc == 1
\* the data centers a file may live in
DataCenters == {1, 2}

Workers == 1..DOWNLOAD_WORKERS

\* bool(x) of an optional integer
Truthy(x) == x # None /\ x # 0

(***************************************************************************)
(* Client.start()                                                          *)
(***************************************************************************)
\* a mutant of StartAllowed: start() does not look at the flag
StartAllowedAlways == TRUE

\* start(), line 280: if self.is_started: raise ConnectionError
StartAllowed == ~is_started

\* start() on a started client: raise ConnectionError (lines 280-281)
StartRefused ==
    /\ ~StartAllowed
    /\ lastOp' = Outcome("start", NoArg, "ConnectionError", NoArg, 0)
    /\ UNCHANGED <<callVars, lifeVars, workerVars, queueVars, dispatcher_updates_queue,
                   media_sessions, doneEvents, channels_pts, peerVars, countVars>>

\* start() up to "await self.session.start()" and "self.is_started = True"
\* (lines 280-307).  how = "config": load_config, the session hook or the
\* Session construction raises; "connect": session.start() raises; "ok".
StartBegin(how) ==
    /\ StartAllowed
    /\ startPc = "idle"
    /\ stopPc = "idle"
    /\ CASE how = "config" ->
              /\ lastOp' = Outcome("start", NoArg, "AttributeError", NoArg, 0)
              /\ UNCHANGED lifeVars
         [] how = "connect" ->
              /\ session' = "created"
              /\ lastOp' = Outcome("start", NoArg, "ConnectError", NoArg, 0)
              /\ UNCHANGED <<is_started, takeout_id, startPc, stopPc>>
         [] OTHER ->
              /\ session' = "started"
              /\ is_started' = TRUE
              /\ startPc' = "sync"
              /\ lastOp' = Outcome("start", NoArg, "pending", NoArg, 0)
              /\ UNCHANGED <<takeout_id, stopPc>>
    /\ UNCHANGED <<callVars, workerVars, queueVars, dispatcher_updates_queue, media_sessions,
                   doneEvents, channels_pts, peerVars, countVars>>

\* a mutant of StartedAfterFailure: the flag is left set
StartedAfterFailureKept == TRUE

\* start(), line 342: "self.is_started = False" in the except clause of the
\* try block that holds the authorization and the synchronisation
StartedAfterFailure == FALSE

\* start() from the authorization to the end (lines 309-360).  stale: the
\* session's date is older than OFFLINE_SLEEP, so the secondary maps are reset;
\* entities: the users and chats of the answers to the synchronisation calls;
\* takeout: a takeout session is initiated; ok: no call raised.
StartSync(stale, entities, takeout, ok) ==
    /\ startPc = "sync"
    /\ LET reset == IF stale THEN Peers(peers_by_id, EmptyMap, EmptyMap) ELSE CurPeers
       IN  SetPeers(FetchPeersOf(reset, entities))
    /\ startPc' = "idle"
    /\ IF ok
       THEN /\ takeout_id' = IF takeout THEN 1 ELSE takeout_id
            /\ updates_worker_task' = "idle"
            /\ download_worker_tasks' =
                   download_worker_tasks \o [i \in 1..DOWNLOAD_WORKERS |-> i]
            /\ dlWorker' = [w \in Workers |-> "idle"]
            /\ lastOp' = Outcome("start", NoArg, "", NoArg, 0)
            /\ UNCHANGED <<is_started, session, stopPc, dlCur, updCur, updIdx>>
       ELSE /\ is_started' = StartedAfterFailure
            /\ session' = "stopped"
            /\ lastOp' = Outcome("start", NoArg, "RPCError", NoArg, 0)
            /\ UNCHANGED <<takeout_id, stopPc, workerVars>>
    /\ UNCHANGED <<callVars, queueVars, dispatcher_updates_queue, media_sessions, doneEvents,
                   channels_pts, countVars>>

(***************************************************************************)
(* Client.stop()                                                           *)
(***************************************************************************)
\* stop(), line 369: if not self.is_started: raise ConnectionError
StopAllowed == is_started

\* stop() on a stopped client: raise ConnectionError (lines 369-370)
StopRefused ==
    /\ ~StopAllowed
    /\ lastOp' = Outcome("stop", NoArg, "ConnectionError", NoArg, 0)
    /\ UNCHANGED <<callVars, lifeVars, workerVars, queueVars, dispatcher_updates_queue,
                   media_sessions, doneEvents, channels_pts, peerVars, countVars>>

\* stop() up to "await self.dispatcher.stop()" (lines 369-377).  With a
\* takeout session, FinishTakeoutSession is sent first and may raise (~ok).
StopBegin(ok) ==
    /\ StopAllowed
    /\ startPc = "idle"
    /\ stopPc = "idle"
    /\ ok \/ takeout_id # None
    /\ IF ok
       THEN /\ stopPc' = "signal"
            /\ lastOp' = Outcome("stop", NoArg, "pending", NoArg, 0)
       ELSE /\ stopPc' = stopPc
            /\ lastOp' = Outcome("stop", NoArg, "RPCError", NoArg, 1)
    /\ UNCHANGED <<callVars, is_started, session, takeout_id, startPc, workerVars, queueVars,
                   dispatcher_updates_queue, media_sessions, doneEvents, channels_pts,
                   peerVars, countVars>>

\* a mutant of PoisonValues: one None too few
PoisonValuesOneShort == [i \in 1..(DOWNLOAD_WORKERS - 1) |-> Poison]

\* for _ in range(Client.DOWNLOAD_WORKERS): self.download_queue.put_nowait(None)
PoisonValues == [i \in 1..DOWNLOAD_WORKERS |-> Poison]

\* stop(), lines 379-383: the None values go on the download queue and the
\* first download worker task is awaited
StopSignal ==
    /\ stopPc = "signal"
    /\ download_queue' = download_queue \o PoisonValues
    /\ stopPc' = "await_dl"
    /\ UNCHANGED <<callVars, is_started, session, takeout_id, startPc, workerVars, updates_queue,
                   dispatcher_updates_queue, media_sessions, doneEvents, channels_pts,
                   peerVars, lastOp, countVars>>

\* every task of download_worker_tasks has finished
DownloadWorkersDone ==
    \A i \in 1..Len(download_worker_tasks) : dlWorker[download_worker_tasks[i]] = "done"

\* a mutant of Clear: the list keeps its tasks
ClearNever(tasks) == tasks

\* stop(), line 385: self.download_worker_tasks.clear()
Clear(tasks) == <<>>

\* stop(), lines 382-390: the awaits of the download worker tasks return, the
\* task list is cleared, None goes on the updates queue and the updates worker
\* task is awaited
StopAwaitDownload ==
    /\ stopPc = "await_dl"
    /\ DownloadWorkersDone
    /\ download_worker_tasks' = Clear(download_worker_tasks)
    /\ updates_queue' = Append(updates_queue, Poison)
    /\ stopPc' = "await_upd"
    /\ UNCHANGED <<callVars, is_started, session, takeout_id, startPc, dlWorker, dlCur,
                   updates_worker_task, updCur, updIdx, download_queue,
                   dispatcher_updates_queue, media_sessions, doneEvents, channels_pts,
                   peerVars, lastOp, countVars>>

\* the media sessions stop() has not stopped yet
RunningMediaSessions == {d \in DOMAIN media_sessions : media_sessions[d] = "started"}

\* a mutant of StopTail: the flag is cleared and the main session is closed
\* although media sessions are still in the map
StopTailEarly(sessions) ==
    /\ media_sessions' = sessions
    /\ is_started' = FALSE
    /\ stopPc' = "close"

\* stop(), lines 392-398 once the sessions in `sessions` are what is left of
\* the map: with none left running the map is cleared, the flag is cleared and
\* the main session's stop() is awaited; otherwise the next one is stopped
StopTail(sessions) ==
    IF \A d \in DOMAIN sessions : sessions[d] = "stopped"
    THEN /\ media_sessions' = EmptyMap
         /\ is_started' = FALSE
         /\ stopPc' = "close"
    ELSE /\ media_sessions' = sessions
         /\ is_started' = is_started
         /\ stopPc' = "media"

\* stop(), line 390: the await of the updates worker task returns
StopAwaitUpdates ==
    /\ stopPc = "await_upd"
    /\ updates_worker_task = "done"
    /\ StopTail(media_sessions)
    /\ UNCHANGED <<callVars, session, takeout_id, startPc, workerVars, queueVars,
                   dispatcher_updates_queue, doneEvents, channels_pts, peerVars,
                   lastOp, countVars>>

\* stop(), lines 392-393: await media_session.stop() for one session returns
StopMedia(d) ==
    /\ stopPc = "media"
    /\ d \in RunningMediaSessions
    /\ StopTail([media_sessions EXCEPT ![d] = "stopped"])
    /\ UNCHANGED <<callVars, session, takeout_id, startPc, workerVars, queueVars,
                   dispatcher_updates_queue, doneEvents, channels_pts, peerVars,
                   lastOp, countVars>>

\* stop(), lines 398-400: await self.session.stop() returns
StopClose ==
    /\ stopPc = "close"
    /\ session' = "stopped"
    /\ stopPc' = "idle"
    /\ lastOp' = Outcome("stop", NoArg, "", NoArg, 0)
    /\ UNCHANGED <<callVars, is_started, takeout_id, startPc, workerVars, queueVars,
                   dispatcher_updates_queue, media_sessions, doneEvents, channels_pts,
                   peerVars, countVars>>

(***************************************************************************)
(* Client.download_worker() and the session set-up of Client.get_file()    *)
(***************************************************************************)
\* a download request as download_media puts it on the download queue
Request(id, dc_id) == [type |-> "media", id |-> id, dc_id |-> dc_id]

\* a download request is put on the download queue
EnqueueDownload(dc_id) ==
    /\ nRequests < MaxRequests
    /\ nRequests' = nRequests + 1
    /\ download_queue' = Append(download_queue, Request(nRequests + 1, dc_id))
    /\ lastOp' = Outcome("download_media", NoArg, "pending", NoArg, 0)
    /\ UNCHANGED <<callVars, lifeVars, workerVars, updates_queue, dispatcher_updates_queue,
                   media_sessions, doneEvents, channels_pts, peerVars,
                   nEnvelopes, nextPts>>

\* download_worker, lines 836-839: the worker's state after it dequeued item
AfterDequeue(item) == IF item = Poison THEN "done" ELSE "busy"

\* download_worker, lines 836-845: media = await self.download_queue.get()
DownloadGet(w) ==
    /\ dlWorker[w] = "idle"
    /\ download_queue # <<>>
    /\ download_queue' = Tail(download_queue)
    /\ dlWorker' = [dlWorker EXCEPT ![w] = AfterDequeue(Head(download_queue))]
    /\ dlCur' = [dlCur EXCEPT ![w] = Head(download_queue)]
    /\ UNCHANGED <<callVars, lifeVars, download_worker_tasks, updates_worker_task, updCur, updIdx,
                   updates_queue, dispatcher_updates_queue, media_sessions, doneEvents,
                   channels_pts, peerVars, lastOp, countVars>>

\* a mutant of AfterDownload: a request ends the worker
AfterDownloadDies == "done"

\* download_worker, lines 835-836: after the finally block of line 933 the
\* loop goes back to "await self.download_queue.get()"
AfterDownload == "idle"

\* download_worker, lines 921-934: the request's done event is set and the
\* worker goes back to the queue
DownloadFinish(w) ==
    /\ doneEvents' = doneEvents \cup {dlCur[w].id}
    /\ dlWorker' = [dlWorker EXCEPT ![w] = AfterDownload]
    /\ dlCur' = [dlCur EXCEPT ![w] = Poison]

\* download_worker, lines 847-915 and get_file, lines 1562-1600.
\* how = "invalid": the file identifier does not decode (FileIdInvalid) or has
\*       no usable media type;
\*       "setup": no session is stored for the data center and ExportAuthorization,
\*       the key negotiation or session.start() raises;
\*       "import": the session of a foreign data center is started and stored,
\*       and ImportAuthorization raises;
\*       "ok": the session is found in the map, or created, started and stored.
DownloadSetup(w, how) ==
    /\ dlWorker[w] = "busy"
    /\ LET dc_id == dlCur[w].dc_id
           known == dc_id \in DOMAIN media_sessions
       IN  /\ how \in {"setup", "import"} => ~known
           /\ how = "import" => dc_id # OwnDc
           /\ media_sessions' =
                  IF how \in {"import", "ok"} /\ ~known
                  THEN Put(media_sessions, dc_id, "started")
                  ELSE media_sessions
    /\ IF how = "ok"
       THEN /\ dlWorker' = [dlWorker EXCEPT ![w] = "transfer"]
            /\ UNCHANGED <<dlCur, doneEvents>>
       ELSE DownloadFinish(w)
    /\ UNCHANGED <<callVars, lifeVars, download_worker_tasks, updates_worker_task, updCur, updIdx,
                   queueVars, dispatcher_updates_queue, channels_pts, peerVars, lastOp,
                   countVars>>

\* get_file, lines 1616-1743 and download_worker, lines 917-934: the transfer
\* ends, with a file or without one
DownloadTransfer(w) ==
    /\ dlWorker[w] = "transfer"
    /\ DownloadFinish(w)
    /\ UNCHANGED <<callVars, lifeVars, download_worker_tasks, updates_worker_task, updCur, updIdx,
                   queueVars, dispatcher_updates_queue, media_sessions, channels_pts,
                   peerVars, lastOp, countVars>>

(***************************************************************************)
(* Client.updates_worker()                                                 *)
(***************************************************************************)
\* the envelope shapes the session hands to the client
Updates(users, chats, updates) ==
    [type |-> "Updates", users |-> users, chats |-> chats, updates |-> updates]
UpdateShortMessage(pts, pts_count, date) ==
    [type |-> "UpdateShortMessage", pts |-> pts, pts_count |-> pts_count, date |-> date]
UpdateShort(update) == [type |-> "UpdateShort", update |-> update]
UpdatesTooLong == [type |-> "UpdatesTooLong"]

\* an update of a combined envelope; channel_id is what lines 951-957 extract
\* (None when the update belongs to no channel), empty says that the message of
\* an UpdateNewChannelMessage is a MessageEmpty
Update(type, channel_id, pts, pts_count, empty) ==
    [type |-> type, channel_id |-> channel_id, pts |-> pts, pts_count |-> pts_count,
     empty |-> empty]

\* the answers of the remote calls the worker makes for one update or envelope
NoCall == [res |-> "none"]
Raised == [res |-> "error"]
ChannelPrivate == [res |-> "ChannelPrivate"]
DifferenceEmpty == [res |-> "empty"]
Difference(users, chats, new_messages, other_updates) ==
    [res |-> "diff", users |-> users, chats |-> chats,
     new_messages |-> new_messages, other_updates |-> other_updates]

\* an envelope is put on the updates queue by the session's receive loop
EnqueueUpdates(envelope) ==
    /\ nEnvelopes < MaxEnvelopes
    /\ nEnvelopes' = nEnvelopes + 1
    /\ updates_queue' = Append(updates_queue, envelope)
    /\ UNCHANGED <<callVars, lifeVars, workerVars, download_queue, dispatcher_updates_queue,
                   media_sessions, doneEvents, channels_pts, peerVars, lastOp,
                   nRequests, nextPts>>

\* self.channels_pts[channel_id], [] when the channel has no list yet
History(channel_id) ==
    IF channel_id \in DOMAIN channels_pts THEN channels_pts[channel_id] ELSE <<>>

\* pts in self.channels_pts[channel_id]
Seen(channel_id, pts) ==
    \E i \in 1..Len(History(channel_id)) : History(channel_id)[i] = pts

\* a mutant of TrimHistory: the 25 newest entries are kept
TrimHistoryNewest(h) ==
    IF Len(h) > HistoryLimit THEN SubSeq(h, Len(h) - HistoryDrop + 1, Len(h)) ELSE h

\* lines 999-1000: a list longer than 50 loses its first 25 entries
TrimHistory(h) ==
    IF Len(h) > HistoryLimit THEN SubSeq(h, HistoryDrop + 1, Len(h)) ELSE h

\* a mutant of Tracked: the pts history is never consulted
TrackedNever(update) == FALSE

\* line 990: if channel_id and pts
Tracked(update) == Truthy(update.channel_id) /\ Truthy(update.pts)

\* lines 990-1002 for one update: a tracked update whose pts is in its channel's
\* list is skipped; any other update is published with the envelope's users and
\* chats, a tracked one after its pts was recorded
Deliver(update, users, chats) ==
    IF Tracked(update) /\ Seen(update.channel_id, update.pts)
    THEN UNCHANGED <<channels_pts, dispatcher_updates_queue>>
    ELSE /\ channels_pts' =
                IF Tracked(update)
                THEN Put(channels_pts, update.channel_id,
                         TrimHistory(Append(History(update.channel_id), update.pts)))
                ELSE channels_pts
         /\ dispatcher_updates_queue' =
                Append(dispatcher_updates_queue,
                       [update |-> update, users |-> users, chats |-> chats])

\* a mutant of AfterException: an exception ends the worker
AfterExceptionDies == "done"

\* lines 1028-1029: the exception is logged and the loop goes on
AfterException == "idle"

\* a mutant of Embedded: the users and chats of the envelope are not fetched
EmbeddedNever(m, updates) == m

\* lines 946-948: the directory after the users and chats of a combined
\* envelope were fetched
Embedded(m, updates) ==
    IF updates.type = "Updates"
    THEN FetchPeersOf(FetchPeersOf(m, updates.users), updates.chats)
    ELSE m

\* lines 939-948: updates = await self.updates_queue.get(); for a combined
\* envelope the embedded users and chats go to the peer directory
UpdatesGet ==
    /\ updates_worker_task = "idle"
    /\ updates_queue # <<>>
    /\ updates_queue' = Tail(updates_queue)
    /\ LET updates == Head(updates_queue)
       IN  IF updates = Poison
           THEN /\ updates_worker_task' = "done"
                /\ UNCHANGED <<updCur, updIdx, peerVars>>
           ELSE /\ updates_worker_task' =
                       IF updates.type = "Updates" /\ updates.updates = <<>>
                       THEN "idle" ELSE "busy"
                /\ updCur' = updates
                /\ updIdx' = 1
                /\ SetPeers(Embedded(CurPeers, updates))
    /\ UNCHANGED <<callVars, lifeVars, download_worker_tasks, dlWorker, dlCur, download_queue,
                   dispatcher_updates_queue, media_sessions, doneEvents, channels_pts,
                   lastOp, countVars>>

\* the worker is done with the envelope when idx is past its last update
AfterUpdate(idx) ==
    IF updCur.type = "Updates" /\ idx <= Len(updCur.updates) THEN "busy" ELSE "idle"

\* lines 965-968: the update makes the worker call GetChannelDifference
Asks(update) == update.type = "UpdateNewChannelMessage" /\ ~update.empty

\* the worker's next step on the envelope it holds awaits resolve_peer or send
\* (lines 970-980 and 1004-1010); no other statement of the loop body raises
MakesCall ==
    CASE updCur.type = "Updates" -> Asks(updCur.updates[updIdx])
      [] updCur.type = "UpdateShortMessage" -> TRUE
      [] OTHER -> FALSE

\* lines 950-1002: one update of a combined envelope; answer is the outcome of
\* the GetChannelDifference call made for a non-empty new channel message
UpdatesStepCombined(answer) ==
    LET update == updCur.updates[updIdx]
        asks == Asks(update)
        enriched == asks /\ answer.res = "diff"
        users == IF enriched THEN updCur.users \o answer.users ELSE updCur.users
        chats == IF enriched THEN updCur.chats \o answer.chats ELSE updCur.chats
    IN  /\ updIdx <= Len(updCur.updates)
        /\ answer.res \in IF asks THEN {"diff", "empty", "ChannelPrivate"} ELSE {"none"}
        /\ SetPeers(IF enriched
                    THEN FetchPeersOf(FetchPeersOf(CurPeers, answer.users), answer.chats)
                    ELSE CurPeers)
        /\ Deliver(update, users, chats)
        /\ updCur' = [updCur EXCEPT !.users = users, !.chats = chats]
        /\ updIdx' = updIdx + 1
        /\ updates_worker_task' = AfterUpdate(updIdx + 1)

\* lines 1028-1029: an exception raised while the envelope is processed
UpdatesStepRaises ==
    /\ MakesCall
    /\ updates_worker_task' = AfterException
    /\ UNCHANGED <<updCur, updIdx, channels_pts, peerVars, dispatcher_updates_queue>>

\* lines 1003-1023: a short message envelope; answer is the outcome of
\* GetDifference.  send() feeds the answer's users and chats to the directory;
\* an answer without new messages and without other updates makes
\* diff.other_updates[0] raise, and a DifferenceEmpty has no new_messages
UpdatesStepShortMessage(answer) ==
    /\ answer.res \in {"diff", "empty"}
    /\ SetPeers(IF answer.res = "diff"
                THEN FetchPeersOf(FetchPeersOf(CurPeers, answer.users), answer.chats)
                ELSE CurPeers)
    /\ IF answer.res = "empty" \/ (answer.new_messages = <<>> /\ answer.other_updates = <<>>)
       THEN /\ updates_worker_task' = AfterException
            /\ UNCHANGED dispatcher_updates_queue
       ELSE /\ updates_worker_task' = "idle"
            /\ dispatcher_updates_queue' =
                   Append(dispatcher_updates_queue,
                          IF answer.new_messages # <<>>
                          THEN [update |-> [type |-> "UpdateNewMessage",
                                            message |-> answer.new_messages[1],
                                            pts |-> updCur.pts,
                                            pts_count |-> updCur.pts_count],
                                users |-> answer.users, chats |-> answer.chats]
                          ELSE [update |-> answer.other_updates[1], users |-> <<>>,
                                chats |-> <<>>])
    /\ UNCHANGED <<updCur, updIdx, channels_pts>>

\* lines 1024-1027: UpdateShort is published as it is, UpdatesTooLong is logged
UpdatesStepBare(answer) ==
    /\ answer.res = "none"
    /\ dispatcher_updates_queue' =
           IF updCur.type = "UpdateShort"
           THEN Append(dispatcher_updates_queue,
                       [update |-> updCur.update, users |-> <<>>, chats |-> <<>>])
           ELSE dispatcher_updates_queue
    /\ updates_worker_task' = "idle"
    /\ UNCHANGED <<updCur, updIdx, channels_pts, peerVars>>

\* a mutant of Abandons: ChannelPrivate ends the envelope as other errors do
AbandonsPrivate(answer) == answer.res \in {"error", "ChannelPrivate"}

\* lines 983-984 and 1028-1029: ChannelPrivate is passed over; any other
\* exception of the awaited calls leaves the envelope
Abandons(answer) == answer.res = "error"

\* lines 945-1029: the worker's next step on the envelope it holds
UpdatesStep(answer) ==
    /\ updates_worker_task = "busy"
    /\ CASE Abandons(answer) -> UpdatesStepRaises
         [] ~Abandons(answer) /\ updCur.type = "Updates" ->
                UpdatesStepCombined(answer)
         [] ~Abandons(answer) /\ updCur.type = "UpdateShortMessage" ->
                UpdatesStepShortMessage(answer)
         [] OTHER -> UpdatesStepBare(answer)
    /\ UNCHANGED <<callVars, lifeVars, download_worker_tasks, dlWorker, dlCur, queueVars,
                   media_sessions, doneEvents, lastOp, countVars>>

\* a mutant of GetDifference: the envelope's own pts is asked for
GetDifferenceLate(updates) ==
    [request |-> "GetDifference", pts |-> updates.pts, date |-> updates.date, qts |-> -1]

\* lines 1005-1009: the request sent for a short message envelope
GetDifference(updates) ==
    [request |-> "GetDifference", pts |-> updates.pts - updates.pts_count,
     date |-> updates.date, qts |-> -1]

\* lines 971-981: the request sent for a new channel message
GetChannelDifference(update) ==
    [request |-> "GetChannelDifference", channel |-> ChannelPeerId(update.channel_id),
     pts |-> update.pts - update.pts_count, limit |-> update.pts]

\* the difference fetch the worker awaits in its next step, if any
Fetch ==
    IF ~MakesCall THEN <<>>
    ELSE IF updCur.type = "Updates" THEN <<GetChannelDifference(updCur.updates[updIdx])>>
    ELSE <<GetDifference(updCur)>>

\* lines 945-1029, as UpdatesStep, with the fetch and its outcome recorded
UpdatesCalled(answer) ==
    /\ updates_worker_task = "busy"
    /\ CASE Abandons(answer) -> UpdatesStepRaises
         [] ~Abandons(answer) /\ updCur.type = "Updates" ->
                UpdatesStepCombined(answer)
         [] ~Abandons(answer) /\ updCur.type = "UpdateShortMessage" ->
                UpdatesStepShortMessage(answer)
         [] OTHER -> UpdatesStepBare(answer)
    /\ updCalls' = updCalls \o [i \in 1..Len(Fetch) |-> [fetch |-> Fetch[i], answer |-> answer]]
    /\ UNCHANGED <<saving, getting, starting, media_sessions_lock, fetching, lifeVars,
                   download_worker_tasks, dlWorker, dlCur, queueVars,
                   media_sessions, doneEvents, lastOp, countVars>>

(***************************************************************************)
(* Client.send(), Client.fetch_peers() and Client.resolve_peer()           *)
(***************************************************************************)
\* the answer of a remote call: an RPC error, or users and chats
RpcError == [res |-> "error"]
Answer(users, chats) == [res |-> "ok", users |-> users, chats |-> chats]

\* a mutant of SendAccepted: send() needs no started client
SendAcceptedAlways == TRUE

\* send(), lines 1056-1057: the call goes to the session only on a started client
SendAccepted == is_started

\* the error send() raises for this answer, "" when it returns
SendError(answer) ==
    IF ~SendAccepted THEN "ConnectionError"
    ELSE IF answer.res = "error" THEN "RPCError" ELSE ""

\* the number of calls that reached the session
SendCalls(answer) == IF SendAccepted THEN 1 ELSE 0

\* send(), lines 1067-1068: the directory after the users and chats of the
\* answer were fetched
AfterSend(m, answer) ==
    IF SendError(answer) = "" THEN FetchPeersOf(FetchPeersOf(m, answer.users), answer.chats)
    ELSE m

\* send(), lines 1056-1070, called by a task of the application
Send(answer) ==
    /\ SetPeers(AfterSend(CurPeers, answer))
    /\ lastOp' = Outcome("send", NoArg, SendError(answer), NoArg, SendCalls(answer))
    /\ UNCHANGED <<callVars, lifeVars, workerVars, queueVars, dispatcher_updates_queue,
                   media_sessions, doneEvents, channels_pts, countVars>>

\* fetch_peers(entities), lines 775-832, called by a method of the client
FetchPeers(entities) ==
    /\ SetPeers(FetchPeersOf(CurPeers, entities))
    /\ lastOp' = Outcome("fetch_peers", entities, "", NoArg, 0)
    /\ UNCHANGED <<callVars, lifeVars, workerVars, queueVars, dispatcher_updates_queue,
                   media_sessions, doneEvents, channels_pts, countVars>>

\* the arguments of resolve_peer: an int or a str
IntPeer(n) == [kind |-> "int", int |-> n, str |-> <<>>]
StrPeer(s) == [kind |-> "str", int |-> 0, str |-> s]

\* a mutant of HasChannelPrefix: no integer is taken for a channel key
HasChannelPrefixNever(peer_id) == FALSE

\* str(peer_id).startswith("-100") for peer_id <= 0
HasChannelPrefix(peer_id) ==
    LET m == -peer_id
    IN  m >= 100 /\ m \div Pow10(Digits(m) - 3) = 100

\* str(peer_id)[4:], the digits after the prefix; "" when there is none
ChannelDigits(peer_id) == Digits(-peer_id) - 3

\* int(str(peer_id)[4:])
ChannelIdOf(peer_id) == (-peer_id) % Pow10(Digits(-peer_id) - 3)

\* the requests resolve_peer passes to send()
GetUsers(user_id) == [fn |-> "users.GetUsers", id |-> user_id]
GetChannels(channel_id) == [fn |-> "channels.GetChannels", id |-> channel_id]
GetChats(chat_id) == [fn |-> "messages.GetChats", id |-> chat_id]
ResolveUsername(username) == [fn |-> "contacts.ResolveUsername", id |-> username]

\* what a call of resolve_peer returned or raised; calls are the requests that
\* reached the session, in order
Resolved(peer_id, err, ret, calls) ==
    [calls |-> calls] @@ Outcome("resolve_peer", peer_id, err, ret, Len(calls))

\* the requests of one send() that reached the session
Sent(request) == IF SendAccepted THEN <<request>> ELSE <<>>

\* resolve_peer, lines 1371-1391: the request made for an int that is no key
\* of peers_by_id
LookupFor(peer_id) ==
    IF peer_id > 0 THEN GetUsers(peer_id)
    ELSE IF HasChannelPrefix(peer_id) THEN GetChannels(ChannelIdOf(peer_id))
    ELSE GetChats(-peer_id)

\* resolve_peer, lines 1371-1396: an int that is no key of peers_by_id
ResolveMissingId(peer_id, answer) ==
    LET channel == peer_id <= 0 /\ HasChannelPrefix(peer_id)
        bad == channel /\ ChannelDigits(peer_id) = 0
        fetched ==
            IF bad \/ SendError(answer) # "" THEN CurPeers
            ELSE IF peer_id > 0
                 THEN FetchPeersOf(CurPeers, answer.users)
                 ELSE FetchPeersOf(CurPeers, answer.chats)
        err == IF bad THEN "ValueError"
               ELSE IF SendError(answer) # "" THEN SendError(answer)
               ELSE IF peer_id \in DOMAIN fetched.id THEN "" ELSE "PeerIdInvalid"
    IN  /\ SetPeers(fetched)
        /\ lastOp' = Resolved(IntPeer(peer_id), err,
                              IF err = "" THEN fetched.id[peer_id] ELSE NoArg,
                              IF bad THEN <<>> ELSE Sent(LookupFor(peer_id)))

\* resolve_peer, lines 1350-1369: a str
ResolveString(s, answer) ==
    LET name == Normalize(s)
        known == name \in DOMAIN peers_by_username
        fetched == IF known THEN CurPeers ELSE AfterSend(CurPeers, answer)
        calls == IF known THEN <<>> ELSE Sent(ResolveUsername(name))
    IN  IF s \in {<<"s", "e", "l", "f">>, <<"m", "e">>}
        THEN /\ lastOp' = Resolved(StrPeer(s), "", [type |-> "InputPeerSelf"], <<>>)
             /\ UNCHANGED peerVars
        ELSE IF ParsesAsInt(name)
        THEN /\ lastOp' =
                    IF name \in DOMAIN peers_by_phone
                    THEN Resolved(StrPeer(s), "", peers_by_phone[name], <<>>)
                    ELSE Resolved(StrPeer(s), "PeerIdInvalid", NoArg, <<>>)
             /\ UNCHANGED peerVars
        ELSE /\ SetPeers(fetched)
             /\ lastOp' =
                    IF ~known /\ SendError(answer) # ""
                    THEN Resolved(StrPeer(s), SendError(answer), NoArg, calls)
                    ELSE IF name \in DOMAIN fetched.username
                    THEN Resolved(StrPeer(s), "", fetched.username[name], calls)
                    ELSE Resolved(StrPeer(s), "KeyError", NoArg, calls)

\* resolve_peer(peer_id), lines 1347-1396; answer is the outcome of the remote
\* call it makes when it makes one
ResolvePeer(peer_id, answer) ==
    /\ IF peer_id.kind = "int" /\ peer_id.int \in DOMAIN peers_by_id
       THEN /\ lastOp' = Resolved(peer_id, "", peers_by_id[peer_id.int], <<>>)
            /\ UNCHANGED peerVars
       ELSE IF peer_id.kind = "str"
       THEN ResolveString(peer_id.str, answer)
       ELSE ResolveMissingId(peer_id.int, answer)
    /\ UNCHANGED <<callVars, lifeVars, workerVars, queueVars, dispatcher_updates_queue,
                   media_sessions, doneEvents, channels_pts, countVars>>

(***************************************************************************)
(* Client.save_file(): the upload of one file by a pool of auxiliary       *)
(* sessions fed through a bounded queue.                                   *)
(***************************************************************************)
\* save_file, line 1462: the size of a part, in bytes
part_size == 512 * 1024

\* save_file, line 1468: the size of the largest file accepted, in bytes
UploadLimit == 1500 * 1024 * 1024

\* save_file, line 1472: the size above which a file is big, in bytes
BigLimit == 10 * 1024 * 1024

\* save_file, line 1480: asyncio.Queue(16)
QueueSize == 16

\* int(math.ceil(a / b)) for the positive integers of save_file
Ceil(a, b) == (a + b - 1) \div b

\* min(a, b)
Min(a, b) == IF a < b THEN a ELSE b

\* a mutant of SizeError: no upper limit on the file size
SizeErrorNoLimit(file_size) == IF file_size = 0 THEN "ValueError" ELSE ""

\* save_file, lines 1465-1469: the exception raised for the file size, if any
SizeError(file_size) ==
    IF file_size = 0 \/ file_size > UploadLimit THEN "ValueError" ELSE ""

\* a mutant of IsBig: a file of exactly the threshold is big
IsBigInclusive(file_size) == file_size >= BigLimit

\* save_file, line 1472
IsBig(file_size) == file_size > BigLimit

\* save_file, line 1473
PoolSize(is_big) == IF is_big THEN 3 ELSE 1

\* save_file, line 1474
WorkersCount(is_big) == IF is_big THEN 4 ELSE 1

\* save_file, line 1478: the session (its index in pool) of every worker, from
\* [... for session in pool for _ in range(workers_count)]
WorkersOf(pool_size, workers_count) ==
    [i \in 1..(pool_size * workers_count) |-> ((i - 1) \div workers_count) + 1]

\* a mutant of IsMissingPart: the identifier 0 counts as no identifier
IsMissingPartTruthy(file_id) == Truthy(file_id)

\* save_file, line 1475: is_missing_part = file_id is not None
IsMissingPart(file_id) == file_id # None

\* the identifiers Client.rnd_id() may return
RndIds == {99}

\* f.read(part_size) with the file positioned at part_size * file_part: the
\* number of bytes read
ChunkAt(file_size, file_part) ==
    IF part_size * file_part >= file_size
    THEN 0
    ELSE Min(part_size, file_size - part_size * file_part)

\* md5_sum when no digest is computed (None)
NoMd5 == [type |-> "None", bytes |-> 0]

\* hashlib.md5() after update() was called with `bytes` bytes in all
Md5(bytes) == [type |-> "md5", bytes |-> bytes]

\* save_file, line 1494: the hexadecimal text of the digest
HexDigest(md5_sum) == [type |-> "hex", bytes |-> md5_sum.bytes]

\* functions.upload.SaveFilePart, lines 1505-1509
SaveFilePart(file_id, file_part, bytes) ==
    [fn |-> "upload.SaveFilePart", file_id |-> file_id, file_part |-> file_part,
     file_total_parts |-> None, bytes |-> bytes]

\* functions.upload.SaveBigFilePart, lines 1498-1503
SaveBigFilePart(file_id, file_part, file_total_parts, bytes) ==
    [fn |-> "upload.SaveBigFilePart", file_id |-> file_id, file_part |-> file_part,
     file_total_parts |-> file_total_parts, bytes |-> bytes]

\* the value that tells a worker of save_file to return
QueueNone == [fn |-> "None"]

\* types.InputFile, lines 1536-1541
InputFile(id, parts, md5_checksum) ==
    [type |-> "InputFile", id |-> id, parts |-> parts, md5_checksum |-> md5_checksum]

\* types.InputFileBig, lines 1529-1534
InputFileBig(id, parts) ==
    [type |-> "InputFileBig", id |-> id, parts |-> parts, md5_checksum |-> None]

\* the value of a call that returns nothing
NoResult == [type |-> "None"]

\* the arguments of save_file; file_size is the size of the file at path
SaveArgs(file_size, file_id, file_part, progress) ==
    [file_size |-> file_size, file_id |-> file_id, file_part |-> file_part,
     progress |-> progress]

\* the locals of a call of save_file that was refused for the file size, or
\* that was never made: no session, no worker, no queue
Unstarted(pc, args) ==
    [pc |-> pc, args |-> args, file_part |-> args.file_part, file_id |-> None,
     file_total_parts |-> 0, is_big |-> FALSE, is_missing_part |-> FALSE,
     md5_sum |-> NoMd5, pool |-> <<>>, workers |-> <<>>, running |-> 0,
     queue |-> <<>>, rpc |-> QueueNone, sent |-> <<>>, reads |-> 0, reported |-> 0,
     progressed |-> <<>>, poisons |-> 0, failed |-> 0, exc |-> "", ret |-> NoResult]

\* no call of save_file was made yet
NoSaving == Unstarted("none", SaveArgs(0, None, 0, FALSE))

\* save_file is not running
SaveIdle == saving.pc \in {"none", "returned", "raised"}

\* save_file, lines 1462-1483: the call, up to the first session.start()
SaveFile(file_size, file_id, file_part, progress) ==
    /\ SaveIdle
    /\ LET args == SaveArgs(file_size, file_id, file_part, progress)
           is_big == IsBig(file_size)
           is_missing_part == IsMissingPart(file_id)
       IN  IF SizeError(file_size) # ""
           THEN /\ saving' = Unstarted("raised", args)
                /\ lastOp' = Outcome("save_file", args, SizeError(file_size), NoResult, 0)
           ELSE /\ \E rnd_id \in RndIds :
                       saving' =
                           [Unstarted("start", args) EXCEPT
                               !.file_id = IF Truthy(file_id) THEN file_id ELSE rnd_id,
                               !.file_total_parts = Ceil(file_size, part_size),
                               !.is_big = is_big,
                               !.is_missing_part = is_missing_part,
                               !.md5_sum = IF ~is_big /\ ~is_missing_part
                                           THEN Md5(0) ELSE NoMd5,
                               !.pool = [i \in 1..PoolSize(is_big) |-> "created"],
                               !.workers = WorkersOf(PoolSize(is_big), WorkersCount(is_big)),
                               !.running = PoolSize(is_big) * WorkersCount(is_big)]
                /\ lastOp' = Outcome("save_file", args, "pending", NoResult, 0)
    /\ UNCHANGED <<lifeVars, workerVars, queueVars, dispatcher_updates_queue,
                   media_sessions, doneEvents, channels_pts, peerVars, countVars,
                   getting, starting, media_sessions_lock, fetching, updCalls>>

\* the variables save_file leaves alone while it runs
SaveFrame ==
    UNCHANGED <<lifeVars, workerVars, queueVars, dispatcher_updates_queue,
                media_sessions, doneEvents, channels_pts, peerVars, lastOp, countVars,
                getting, starting, media_sessions_lock, fetching, updCalls>>

\* save_file leaves the try block: exc is the exception caught ("" for none)
\* and ret the value to return after the finally block
SaveLeaves(s, exc, ret) == [s EXCEPT !.pc = "finally", !.exc = exc, !.ret = ret]

\* save_file, lines 1482-1487: the sessions of the pool are started one after
\* the other, `started` of them before one raises (all of them: none raises);
\* then the file is opened and positioned
SaveStart(started) ==
    /\ saving.pc = "start"
    /\ LET pool == [i \in 1..Len(saving.pool) |->
                       IF i <= started THEN "started" ELSE saving.pool[i]]
       IN  saving' =
               IF started = Len(saving.pool)
               THEN [saving EXCEPT !.pool = pool, !.pc = "read"]
               ELSE SaveLeaves([saving EXCEPT !.pool = pool], "Exception", NoResult)
    /\ SaveFrame

\* save_file, lines 1490-1509: one part is read; at the end of the file the
\* digest is finished and the loop is left, otherwise the request is built
SaveRead ==
    /\ saving.pc = "read"
    /\ LET bytes == ChunkAt(saving.args.file_size, saving.file_part)
           read == [saving EXCEPT !.reads = saving.reads + 1]
       IN  saving' =
               IF bytes = 0
               THEN IF saving.is_big
                    THEN SaveLeaves(read, "",
                                    InputFileBig(saving.file_id, saving.file_total_parts))
                    ELSE IF saving.md5_sum = NoMd5
                    THEN SaveLeaves(read, "Exception", NoResult)
                    ELSE SaveLeaves([read EXCEPT !.md5_sum = HexDigest(saving.md5_sum)], "",
                                    InputFile(saving.file_id, saving.file_total_parts,
                                              HexDigest(saving.md5_sum)))
               ELSE [read EXCEPT
                        !.pc = "put",
                        !.rpc = IF saving.is_big
                                THEN SaveBigFilePart(saving.file_id, saving.file_part,
                                                     saving.file_total_parts, bytes)
                                ELSE SaveFilePart(saving.file_id, saving.file_part, bytes)]
    /\ SaveFrame

\* a mutant of Reraised: the stop signal is treated like any exception
ReraisedNever(exc) == FALSE

\* save_file, lines 1523-1524: the exception the try statement raises again
Reraised(exc) == exc = "StopTransmission"

\* a mutant of HasRoom: put never waits
HasRoomAlways(queue) == TRUE

\* asyncio.Queue(16), line 1480: "await queue.put(...)" (lines 1511 and 1544)
\* goes on when the queue holds fewer than 16 items
HasRoom(queue) == Len(queue) < QueueSize

\* a mutant of Progress: the position before the part that was just enqueued
ProgressEarly(file_part, file_size) ==
    [current |-> Min((file_part - 1) * part_size, file_size), total |-> file_size]

\* save_file, line 1522: the arguments of the progress callback, file_part
\* being the part number after line 1519 advanced it
Progress(file_part, file_size) ==
    [current |-> Min(file_part * part_size, file_size), total |-> file_size]

\* what the progress callback does when it is awaited
ProgressOutcomes == {"", "StopTransmission", "Exception"}

\* save_file, lines 1511-1522: the request is put on the queue once the queue
\* has room; a missing part ends the call, otherwise the digest and the part
\* number advance and the progress callback, if any, is awaited: it returns
\* (outcome "") or raises
SavePut(outcome) ==
    /\ saving.pc = "put"
    /\ HasRoom(saving.queue)
    /\ LET put == [saving EXCEPT !.queue = Append(saving.queue, saving.rpc),
                                 !.rpc = QueueNone]
           next == [put EXCEPT
                       !.md5_sum = IF ~saving.is_big
                                   THEN Md5(saving.md5_sum.bytes + saving.rpc.bytes)
                                   ELSE saving.md5_sum,
                       !.file_part = saving.file_part + 1]
       IN  IF saving.is_missing_part
           THEN /\ outcome = ""
                /\ saving' = SaveLeaves(put, "", NoResult)
           ELSE IF ~saving.args.progress
           THEN /\ outcome = ""
                /\ saving' = [next EXCEPT !.pc = "read"]
           ELSE LET reported ==
                        [next EXCEPT
                            !.reported = saving.reported + 1,
                            !.progressed = Append(@, Progress(next.file_part,
                                                             saving.args.file_size))]
                IN  saving' = IF outcome = ""
                              THEN [reported EXCEPT !.pc = "read"]
                              ELSE SaveLeaves(reported, outcome, NoResult)
    /\ SaveFrame

\* the largest number of sends that raise during one call of save_file
MaxFailures == 1

\* worker(session), lines 1458-1459: "except Exception as e: log.error(e)";
\* failed counts the sends of the call that raised
Logged(s) == [s EXCEPT !.failed = @ + 1]

\* worker(session), lines 1450-1460: a worker takes the next value of the
\* queue and returns if it is None, otherwise hands the request to its
\* session; what session.send raises (~ok) is logged and the worker goes on
SaveWorker(ok) ==
    /\ saving.pc \in {"start", "read", "put", "finally"}
    /\ saving.running > 0
    /\ saving.queue # <<>>
    /\ IF Head(saving.queue) = QueueNone
       THEN /\ ok
            /\ saving' = [saving EXCEPT !.queue = Tail(saving.queue),
                                        !.running = saving.running - 1]
       ELSE LET handed == [saving EXCEPT !.queue = Tail(saving.queue),
                                         !.sent = Append(saving.sent, Head(saving.queue))]
            IN  /\ ~ok => saving.failed < MaxFailures
                /\ saving' = IF ok THEN handed ELSE Logged(handed)
    /\ SaveFrame

\* save_file, lines 1543-1544: one None per worker, each put once the queue
\* has room
SavePoison ==
    /\ saving.pc = "finally"
    /\ saving.poisons < Len(saving.workers)
    /\ HasRoom(saving.queue)
    /\ saving' = [saving EXCEPT !.queue = Append(saving.queue, QueueNone),
                                !.poisons = saving.poisons + 1]
    /\ SaveFrame

\* a mutant of Stopped: the first session of the pool is left as it is
StoppedButFirst(pool) ==
    [i \in 1..Len(pool) |-> IF i = 1 THEN pool[i] ELSE "stopped"]

\* save_file, lines 1548-1549: for session in pool: await session.stop()
Stopped(pool) == [i \in 1..Len(pool) |-> "stopped"]

\* save_file, lines 1523-1549: once every worker returned, the sessions are
\* stopped and the call ends: the stop signal is raised again, any other
\* exception was logged and the call returns None, a return or the end of
\* the loop returns its value
SaveReturn ==
    /\ saving.pc = "finally"
    /\ saving.poisons = Len(saving.workers)
    /\ saving.running = 0
    /\ saving' = [saving EXCEPT
                     !.pc = IF Reraised(saving.exc) THEN "raised" ELSE "returned",
                     !.pool = Stopped(saving.pool)]
    /\ lastOp' = Outcome("save_file", saving.args,
                         IF Reraised(saving.exc) THEN saving.exc ELSE "",
                         saving.ret, 0)
    /\ UNCHANGED <<lifeVars, workerVars, queueVars, dispatcher_updates_queue,
                   media_sessions, doneEvents, channels_pts, peerVars, countVars,
                   getting, starting, media_sessions_lock, fetching, updCalls>>

(***************************************************************************)
(* Client.get_file() from its first request on, and the end of             *)
(* Client.download_worker() that takes its result.  File content is        *)
(* counted in units of 256 KiB.                                            *)
(***************************************************************************)
\* the size of a unit of file content, in bytes
Unit == 256 * 1024

\* get_file, line 1616: the size of a chunk, in bytes
limit == 1024 * 1024

\* the size of a chunk, in units
LimitUnits == limit \div Unit

\* the values of a unit: as the file has it ("b"), or altered ("a")
Units == {"a", "b"}

\* the sequences of n units
RECURSIVE UnitSeqs(_)
UnitSeqs(n) ==
    IF n = 0 THEN {<<>>}
    ELSE {Append(s, u) : s \in UnitSeqs(n - 1), u \in Units}

\* n units of the file's own content
Genuine(n) == [i \in 1..n |-> "b"]

\* a unit as the CDN stores it, encrypted
Encrypted(units) == [i \in 1..Len(units) |-> [enc |-> units[i]]]

\* AES.ctr256_decrypt, lines 1700-1707: the content of an encrypted chunk
Decrypt(chunk) == [i \in 1..Len(chunk) |-> chunk[i].enc]

\* sha256(data).digest(), taken to be free of collisions
Sha256(data) == [sha256 |-> data]

\* data[from:to] of Python, for 0 <= from <= to
Slice(data, from, to) ==
    IF from >= Min(to, Len(data))
    THEN <<>>
    ELSE SubSeq(data, from + 1, Min(to, Len(data)))

\* types.FileHash: the hash of the `limit` units of the file at `offset`
FileHash(offset, n, hash) == [offset |-> offset, limit |-> n, hash |-> hash]

\* the size of the ranges the data center hashes, in units; the last range
\* of a file is as long as what is left
RangeUnits == 2

\* the lengths of the consecutive ranges that cover n units
Ranges(n) ==
    [i \in 1..Ceil(n, RangeUnits) |-> Min(RangeUnits, n - RangeUnits * (i - 1))]

\* the answers to GetCdnFileHashes for a chunk of n units at `offset`: the
\* hashes of the file's own content over the consecutive ranges of the chunk
HashLists(offset, n) ==
    {[i \in 1..Len(Ranges(n)) |->
         FileHash(offset + RangeUnits * (i - 1), Ranges(n)[i],
                  Sha256(Genuine(Ranges(n)[i])))]}

\* get_file, lines 1717-1719: every assertion of the loop over the hashes holds
Verified(decrypted_chunk, hashes) ==
    \A j \in 1..Len(hashes) :
        LET i == j - 1
            h == hashes[j]
            cdn_chunk == Slice(decrypted_chunk, h.limit * i, h.limit * (i + 1))
        IN  h.hash = Sha256(cdn_chunk)

\* a file of the file system: whether it exists, and its content
NoFile == [exists |-> FALSE, data |-> <<>>]
FileOf(data) == [exists |-> TRUE, data |-> data]

\* the answers to GetFile
File(bytes) == [type |-> "upload.File", bytes |-> bytes]
FileCdnRedirect == [type |-> "upload.FileCdnRedirect", bytes |-> <<>>]
Unexpected == [type |-> "other", bytes |-> <<>>]

\* the answers to GetCdnFile, ReuploadCdnFile and GetCdnFileHashes, by kind
CdnFile == [type |-> "upload.CdnFile"]
CdnFileReuploadNeeded == [type |-> "upload.CdnFileReuploadNeeded"]
FileHashes == [type |-> "Vector<FileHash>"]
VolumeLocNotFound == [res |-> "VolumeLocNotFound"]

\* "await session.send(...)" and "await cdn_session.send(...)" in get_file:
\* the request (its function and offset), the session it is sent on (the
\* name of the local variable) and its answer
Call(fn, offset, on, answer) ==
    [fn |-> fn, offset |-> offset, on |-> on, answer |-> answer]

\* functions.upload.GetFile of lines 1621-1627 and 1646-1652
GetFileCall(offset, r) == Call("upload.GetFile", offset, "session", r)

\* functions.upload.GetCdnFile, lines 1676-1682
GetCdnFile(offset, r2) == Call("upload.GetCdnFile", offset, "cdn_session", r2)

\* functions.upload.ReuploadCdnFile, lines 1686-1691: the request carries the
\* tokens and no offset
ReuploadCdnFile(answer) == Call("upload.ReuploadCdnFile", None, "session", answer)

\* functions.upload.GetCdnFileHashes, lines 1709-1714
GetCdnFileHashes(offset, answer) ==
    Call("upload.GetCdnFileHashes", offset, "session", answer)

\* the call g after it awaited the calls of `calls`
Awaited(g, calls) == [g EXCEPT !.sent = @ \o calls]

\* the largest number of re-uploads the CDN asks for during one download
MaxReuploads == 2

\* the re-uploads requested by the call so far
Reuploads(g) ==
    Cardinality({i \in 1..Len(g.sent) : g.sent[i].fn = "upload.ReuploadCdnFile"})

\* a mutant of AfterReupload: the chunk that needed the re-upload is skipped
AfterReuploadSkips(g) == [g EXCEPT !.offset = @ + limit]

\* get_file, lines 1694-1695: "else: continue" leaves the locals as they are
\* and the loop sends GetCdnFile again
AfterReupload(g) == g

\* a mutant of NextOffset: the offset is counted in chunks
NextOffsetInChunks(offset) == offset + 1

\* get_file, lines 1641 and 1723: offset += limit
NextOffset(offset) == offset + limit

\* the locals of a call of get_file by the download worker, the scratch file
\* (scratch) and the destination file (dest) of the request, and what the
\* worker reports: path[0] and the done event
Getting(pc, progress) ==
    [pc |-> pc, progress |-> progress, route |-> "", r |-> Unexpected, offset |-> 0,
     file_name |-> "", scratch |-> NoFile, decrypted_chunk |-> <<>>, hashes |-> <<>>,
     chunks |-> 0, reported |-> 0, exc |-> "", ret |-> "", dest |-> NoFile,
     path |-> "None", done |-> FALSE, sent |-> <<>>]

\* no call of get_file was made yet
NoGetting == Getting("none", FALSE)

\* the variables get_file and the end of download_worker leave alone
GetFrame ==
    UNCHANGED <<lifeVars, workerVars, queueVars, dispatcher_updates_queue,
                media_sessions, doneEvents, channels_pts, peerVars, lastOp, countVars,
                saving, starting, media_sessions_lock, fetching, updCalls>>

\* a mutant of Failed: the scratch file is left where it is
FailedKeepsFile(g, exc) == [g EXCEPT !.pc = "returned", !.exc = exc, !.ret = ""]

\* get_file, lines 1732-1741: an exception ends the call; the scratch file,
\* if one was created, is removed and "" is returned
Failed(g, exc) ==
    [g EXCEPT !.pc = "returned", !.exc = exc, !.ret = "", !.scratch = NoFile]

\* get_file, lines 1742-1743: the call returns the name of the scratch file
Returned(g) == [g EXCEPT !.pc = "returned", !.ret = g.file_name]

\* the largest number of chunks of a file
MaxChunks == 2

\* the chunks the server may deliver after `chunks` chunks: nothing, or, while
\* the file has chunks left, a short chunk or (but for the last) a full one
Chunks(chunks) ==
    {<<>>} \cup (IF chunks < MaxChunks THEN {Genuine(1), <<"a">>} ELSE {})
           \cup (IF chunks + 1 < MaxChunks THEN {Genuine(LimitUnits)} ELSE {})

\* the outcomes of session.send(GetFile(...)): an answer, or an RPC error
GetFileAnswers(chunks) ==
    {File(bytes) : bytes \in Chunks(chunks)} \cup {RpcError}

\* download_worker, lines 905-915, and get_file, lines 1616-1631 and
\* 1654-1673: the worker calls get_file, which sends the first request; a
\* File answer opens the scratch file, a redirect obtains the CDN session
\* (cdn_ok: without an exception) and opens the scratch file, any other
\* answer returns ""
GetFile(progress, r, cdn_ok) ==
    /\ getting.pc \in {"none", "done"}
    /\ LET g == Awaited(Getting("called", progress), <<GetFileCall(0, r)>>)
       IN  getting' =
               CASE r = RpcError -> Failed(g, "RPCError")
                 [] r = Unexpected -> Returned(g)
                 [] r = FileCdnRedirect ->
                        IF cdn_ok
                        THEN [g EXCEPT !.pc = "cdn", !.route = "cdn", !.r = r,
                                       !.file_name = "tmp", !.scratch = FileOf(<<>>)]
                        ELSE Failed([g EXCEPT !.route = "cdn"], "Exception")
                 [] OTHER ->
                        [g EXCEPT !.pc = "direct", !.route = "direct", !.r = r,
                                  !.file_name = "tmp", !.scratch = FileOf(<<>>)]
    /\ GetFrame

\* get_file, lines 1634-1637 and 1742-1743: the answer is empty, the loop is
\* left and the name of the scratch file returned
GetFileDirectEnd ==
    /\ getting.pc = "direct"
    /\ getting.r.bytes = <<>>
    /\ getting' = Returned(getting)
    /\ GetFrame

\* get_file, lines 1634-1652: the chunk is written, the progress callback, if
\* any, is awaited (outcome: "" when it returns) and the next request is sent
GetFileDirectChunk(outcome, r) ==
    /\ getting.pc = "direct"
    /\ getting.r.bytes # <<>>
    /\ LET written ==
               [getting EXCEPT
                   !.scratch = FileOf(getting.scratch.data \o getting.r.bytes),
                   !.offset = NextOffset(getting.offset),
                   !.chunks = getting.chunks + 1,
                   !.reported = IF getting.progress THEN getting.reported + 1
                                ELSE getting.reported]
       IN  /\ ~getting.progress => outcome = ""
           /\ getting' =
                  IF outcome # ""
                  THEN Failed(written, outcome)
                  ELSE LET asked == Awaited(written, <<GetFileCall(written.offset, r)>>)
                       IN  IF r = RpcError
                           THEN Failed(asked, "RPCError")
                           ELSE [asked EXCEPT !.r = r]
    /\ GetFrame

\* get_file, lines 1676-1695 and 1709-1714: the CDN asks for a re-upload
\* (how = "ok": the loop goes on; "VolumeLocNotFound": the loop is left), or
\* the request that `how` names (GetCdnFile, ReuploadCdnFile or
\* GetCdnFileHashes) raises an RPC error
GetFileCdnOther(how) ==
    /\ getting.pc = "cdn"
    /\ how \in {"ok", "VolumeLocNotFound", "upload.ReuploadCdnFile"}
           => Reuploads(getting) < MaxReuploads
    /\ LET needed == GetCdnFile(getting.offset, CdnFileReuploadNeeded)
       IN  getting' =
               CASE how = "ok" ->
                        AfterReupload(Awaited(getting,
                                              <<needed, ReuploadCdnFile(FileHashes)>>))
                 [] how = "VolumeLocNotFound" ->
                        Returned([Awaited(getting,
                                          <<needed, ReuploadCdnFile(VolumeLocNotFound)>>)
                                     EXCEPT !.exc = "VolumeLocNotFound"])
                 [] how = "upload.ReuploadCdnFile" ->
                        Failed(Awaited(getting, <<needed, ReuploadCdnFile(RpcError)>>),
                               "RPCError")
                 [] how = "upload.GetCdnFileHashes" ->
                        Failed(Awaited(getting,
                                       <<GetCdnFile(getting.offset, CdnFile),
                                         GetCdnFileHashes(getting.offset, RpcError)>>),
                               "RPCError")
                 [] OTHER ->
                        Failed(Awaited(getting, <<GetCdnFile(getting.offset, RpcError)>>),
                               "RPCError")
    /\ GetFrame

\* get_file, lines 1676-1729: the CDN delivers a chunk; it is decrypted,
\* compared with the hashes the data center supplies, written, and the
\* progress callback, if any, is awaited; a chunk shorter than limit is the
\* last
GetFileCdnChunk(bytes, hashes, outcome) ==
    /\ getting.pc = "cdn"
    /\ LET decrypted_chunk == Decrypt(bytes)
           got == [Awaited(getting,
                           <<GetCdnFile(getting.offset, CdnFile),
                             GetCdnFileHashes(getting.offset, FileHashes)>>)
                      EXCEPT !.decrypted_chunk = decrypted_chunk,
                             !.hashes = hashes]
           written ==
               [got EXCEPT
                   !.scratch = FileOf(getting.scratch.data \o decrypted_chunk),
                   !.offset = NextOffset(getting.offset),
                   !.chunks = getting.chunks + 1,
                   !.reported = IF getting.progress THEN getting.reported + 1
                                ELSE getting.reported]
       IN  IF ~Verified(decrypted_chunk, hashes)
           THEN /\ outcome = ""
                /\ getting' = Failed(got, "AssertionError")
           ELSE /\ ~getting.progress => outcome = ""
                /\ getting' =
                       IF outcome # ""
                       THEN Failed(written, outcome)
                       ELSE IF Len(bytes) * Unit < limit
                       THEN Returned(written)
                       ELSE written
    /\ GetFrame

\* download_worker, lines 917-934: a returned name moves the scratch file to
\* the destination and the path is reported, "" leaves path[0] None; the done
\* event is set
GetFileDone ==
    /\ getting.pc = "returned"
    /\ getting' =
           IF getting.ret # ""
           THEN [getting EXCEPT !.pc = "done", !.dest = getting.scratch,
                                !.scratch = NoFile, !.path = "final", !.done = TRUE]
           ELSE [getting EXCEPT !.pc = "done", !.path = "None", !.done = TRUE]
    /\ GetFrame

(***************************************************************************)
(* Client.get_file(): the auxiliary sessions.  Several calls run            *)
(* concurrently; each await is a point where another call may run.          *)
(***************************************************************************)
\* the concurrent calls of get_file
MaxCalls == 2

CallIds == 1..MaxCalls

\* the data center of a CDN that a FileCdnRedirect names
CdnDc == 3

\* a call that has not begun
NotCalled == [pc |-> "none", dc_id |-> None, target |-> None, cdn |-> FALSE, session |-> None]

\* no call has begun and no Session was created
NoFetching ==
    [calls |-> [c \in CallIds |-> NotCalled], created |-> <<>>,
     stores |-> [d \in DataCenters \cup {CdnDc} |-> <<>>], imported |-> {}]

MediaFrame ==
    UNCHANGED <<lifeVars, workerVars, queueVars, dispatcher_updates_queue,
                doneEvents, channels_pts, peerVars, lastOp, countVars,
                saving, getting, starting, updCalls>>

\* a mutant of Free: the lock is taken whoever holds it
FreeAlways == TRUE

\* "with await self.media_sessions_lock" (lines 1562 and 1655) goes on when
\* no call holds the lock
Free == media_sessions_lock = None

\* the positions between line 1562 and line 1600, and between 1655 and 1669
Locked == {"export", "auth", "start", "import"}

\* the call c with its fields changed
SetCall(c, call) == [fetching EXCEPT !.calls[c] = call]

\* get_file is called for a file of data center dc_id and reaches line 1562
MediaEnter(c, dc_id) ==
    /\ fetching.calls[c].pc = "none"
    /\ fetching' = SetCall(c, [NotCalled EXCEPT !.pc = "lock", !.dc_id = dc_id,
                                             !.target = dc_id])
    /\ UNCHANGED <<media_sessions, media_sessions_lock>>
    /\ MediaFrame

\* Session(...) of lines 1573, 1591 and 1659: the session object and whether
\* the map held a session for the data center when it was created
Creates(f, c) ==
    [f EXCEPT !.created = Append(@, [id |-> Len(@) + 1, dc_id |-> f.calls[c].target,
                                     known |-> f.calls[c].target \in DOMAIN media_sessions]),
              !.calls[c].session = Len(f.created) + 1]

\* lines 1562-1566 and 1655-1658: the lock is acquired and the session of the
\* data center is looked up.  A session that is found is used and the lock is
\* released; otherwise the call goes on to create one, holding the lock
MediaLookup(c) ==
    /\ fetching.calls[c].pc = "lock"
    /\ Free
    /\ LET call == fetching.calls[c]
       IN  IF call.target \in DOMAIN media_sessions
           THEN /\ fetching' =
                       SetCall(c, [call EXCEPT !.pc = IF call.cdn THEN "done" ELSE "request",
                                               !.session = Head(fetching.stores[call.target])])
                /\ UNCHANGED media_sessions_lock
           ELSE /\ media_sessions_lock' = c
                /\ fetching' =
                       IF call.cdn THEN SetCall(c, [call EXCEPT !.pc = "auth"])
                       ELSE IF call.target # OwnDc
                       THEN SetCall(c, [call EXCEPT !.pc = "export"])
                       ELSE Creates(SetCall(c, [call EXCEPT !.pc = "start"]), c)
    /\ UNCHANGED media_sessions
    /\ MediaFrame

\* lines 1567-1600 and 1659-1669: the call that holds the lock goes on to its
\* next await.  ok: the call awaited (ExportAuthorization, the key exchange,
\* session.start(), ImportAuthorization) does not raise; an exception leaves
\* the with block, which releases the lock.  imported holds the sessions whose
\* ImportAuthorization (lines 1585-1590) was answered
MediaSetup(c, ok) ==
    /\ fetching.calls[c].pc \in Locked
    /\ LET call == fetching.calls[c]
           after == IF call.cdn THEN "done" ELSE "request"
       IN  CASE ~ok ->
                  /\ fetching' = SetCall(c, [call EXCEPT !.pc = "raised"])
                  /\ media_sessions_lock' = None
                  /\ UNCHANGED media_sessions
             [] ok /\ call.pc = "export" ->
                  /\ fetching' = SetCall(c, [call EXCEPT !.pc = "auth"])
                  /\ UNCHANGED <<media_sessions, media_sessions_lock>>
             [] ok /\ call.pc = "auth" ->
                  /\ fetching' = Creates(SetCall(c, [call EXCEPT !.pc = "start"]), c)
                  /\ UNCHANGED <<media_sessions, media_sessions_lock>>
             [] ok /\ call.pc = "start" ->
                  /\ media_sessions' = Put(media_sessions, call.target, "started")
                  /\ fetching' =
                         [SetCall(c, [call EXCEPT !.pc = IF ~call.cdn /\ call.target # OwnDc
                                                         THEN "import" ELSE after])
                             EXCEPT !.stores[call.target] = Append(@, call.session)]
                  /\ media_sessions_lock' =
                         IF ~call.cdn /\ call.target # OwnDc THEN media_sessions_lock
                         ELSE None
             [] OTHER ->
                  /\ fetching' = [SetCall(c, [call EXCEPT !.pc = after])
                                     EXCEPT !.imported = @ \cup {call.session}]
                  /\ media_sessions_lock' = None
                  /\ UNCHANGED media_sessions
    /\ MediaFrame

\* lines 1620-1654: the first GetFile is answered with a file (redirect
\* FALSE) or with a FileCdnRedirect, after which the call reaches line 1655
MediaRequest(c, redirect) ==
    /\ fetching.calls[c].pc = "request"
    /\ fetching' =
           SetCall(c, IF redirect
                      THEN [fetching.calls[c] EXCEPT !.pc = "lock", !.cdn = TRUE,
                                                     !.target = CdnDc]
                      ELSE [fetching.calls[c] EXCEPT !.pc = "done"])
    /\ UNCHANGED <<media_sessions, media_sessions_lock>>
    /\ MediaFrame

(***************************************************************************)
(* The session file: Client.save_session() and Client.load_session().      *)
(* A key is a sequence of bytes; a base64 text is a sequence of the        *)
(* alphabet's indices 0..63 and of Pad.                                    *)
(***************************************************************************)
\* save_session, line 1276: the length of the chunks of the encoded key
KeyChunk == 43

\* the '=' that base64 pads the last group with
Pad == 64

\* base64.b64encode (line 1275): each group of three bytes gives four
\* characters; a last group of one or two bytes gives two or three characters
\* and the padding
b64encode(b) ==
    [k \in 1..(4 * Ceil(Len(b), 3)) |->
        LET g == 3 * ((k - 1) \div 4)
            Has(i) == g + i <= Len(b)
            Byte(i) == IF Has(i) THEN b[g + i] ELSE 0
        IN  CASE (k - 1) % 4 = 0 -> Byte(1) \div 4
              [] (k - 1) % 4 = 1 -> (Byte(1) % 4) * 16 + Byte(2) \div 16
              [] (k - 1) % 4 = 2 -> IF Has(2) THEN (Byte(2) % 16) * 4 + Byte(3) \div 64
                                    ELSE Pad
              [] OTHER -> IF Has(3) THEN Byte(3) % 64 ELSE Pad]

\* base64.b64decode (line 1149) raises binascii.Error on a text whose length
\* is no multiple of four
Padded(t) == Len(t) % 4 = 0

\* the padding characters at the end of a text
Pads(t) ==
    IF Len(t) >= 1 /\ t[Len(t)] = Pad
    THEN (IF Len(t) >= 2 /\ t[Len(t) - 1] = Pad THEN 2 ELSE 1)
    ELSE 0

\* base64.b64decode (line 1149) of a padded text: each group of four
\* characters gives three bytes, a last group ending in one or two paddings
\* gives two or one
b64decode(t) ==
    [i \in 1..(3 * (Len(t) \div 4) - Pads(t)) |->
        LET g == 4 * ((i - 1) \div 3)
        IN  CASE (i - 1) % 3 = 0 -> t[g + 1] * 4 + t[g + 2] \div 16
              [] (i - 1) % 3 = 1 -> (t[g + 2] % 16) * 16 + t[g + 3] \div 4
              [] OTHER -> (t[g + 3] % 4) * 64 + t[g + 4]]

\* a mutant of Split: the chunk that is shorter than KeyChunk is left out
SplitWhole(t) ==
    [k \in 1..(Len(t) \div KeyChunk) |->
        SubSeq(t, KeyChunk * (k - 1) + 1, KeyChunk * k)]

\* save_session, line 1276: [auth_key[i: i + 43] for i in range(0, len(auth_key), 43)]
Split(t) ==
    [k \in 1..Ceil(Len(t), KeyChunk) |->
        SubSeq(t, KeyChunk * (k - 1) + 1, Min(KeyChunk * k, Len(t)))]

RECURSIVE Join(_)
\* load_session, line 1149: "".join(s["auth_key"])
Join(chunks) ==
    IF Len(chunks) = 0 THEN <<>> ELSE Head(chunks) \o Join(Tail(chunks))

\* json.dump (line 1281) of an optional integer: None is written as null
JsonNull == [json |-> "null", number |-> 0]
ToJson(v) == IF v = None THEN JsonNull ELSE [json |-> "number", number |-> v]

\* json.load (line 1141) of a number or null
FromJson(j) == IF j.json = "null" THEN None ELSE j.number

\* no file of that name in the working directory
NoSessionFile == [exists |-> FALSE]

\* save_session, lines 1275-1292: the dictionary written to the file
SessionFile(c) ==
    [exists |-> TRUE,
     dc_id |-> ToJson(c.dc_id),
     test_mode |-> c.test_mode,
     auth_key |-> Split(b64encode(c.auth_key)),
     user_id |-> ToJson(c.user_id),
     date |-> ToJson(c.date),
     is_bot |-> c.is_bot]

\* load_session, lines 1147-1153: the attributes read from the file s
Loaded(c, s) ==
    [c EXCEPT !.dc_id = FromJson(s.dc_id),
              !.test_mode = s.test_mode,
              !.auth_key = b64decode(Join(s.auth_key)),
              !.user_id = FromJson(s.user_id),
              !.date = FromJson(s.date),
              !.is_bot = s.is_bot]

(***************************************************************************)
(* Client.start() from the construction of the client to the end of the    *)
(* authorization: load_session, authorize_user, authorize_bot and          *)
(* save_session.  starting holds the session file of the working           *)
(* directory and the attributes and locals of the client that start() was  *)
(* last called on.                                                         *)
(***************************************************************************)
\* the requests one start() may issue
MaxSends == 4

\* the length of the key Auth(...).create() returns (lines 526, 580, 1145)
AuthKeyLen == 256

\* a key of n bytes
Key(n, seed) == [i \in 1..n |-> (seed + 89 * i * i) % 256]

\* the key that the key exchange with data center dc_id produces
Negotiated(dc_id) == Key(AuthKeyLen, dc_id)

\* self.auth_key before any key was loaded or negotiated
NoKey == <<None>>

\* self.session before line 299
NoSession == [dc_id |-> None, auth_key |-> NoKey, state |-> "none"]

\* Session(self, self.dc_id, self.auth_key) after "await self.session.start()"
\* (lines 299-306, 528-534, 587-593)
StartedSession(dc_id, auth_key) ==
    [dc_id |-> dc_id, auth_key |-> auth_key, state |-> "started"]

\* the answer of the server to a request of the authorization: an error kind
\* ("" for a result) and the number the error carries (a data center for a
\* migrate error, seconds for FloodWait)
AuthAnswer(err, x) == [err |-> err, x |-> x]

\* the attributes of a client after __init__ (lines 212-240); credentials:
\* which of phone_number, phone_code, first_name, password are not None
Constructed(disk, load_hook, save_hook, bot, credentials) ==
    [pc |-> "none", disk |-> disk, given |-> credentials,
     dc_id |-> None, test_mode |-> FALSE, auth_key |-> NoKey, user_id |-> None,
     date |-> None, is_bot |-> FALSE,
     load_session_hook |-> load_hook, save_session_hook |-> save_hook,
     bot_token |-> bot,
     phone_number |-> credentials.phone_number,
     phone_code |-> credentials.phone_code,
     first_name |-> credentials.first_name,
     password |-> credentials.password,
     phone_number_invalid_raises |-> FALSE, phone_code_invalid_raises |-> FALSE,
     password_invalid_raises |-> FALSE, first_name_invalid_raises |-> FALSE,
     phone_registered |-> FALSE,
     is_started |-> FALSE, session |-> NoSession,
     stopped |-> 0, created |-> 0, running |-> 0, sent |-> <<>>, slept |-> 0,
     answer |-> AuthAnswer("", 0), exc |-> ""]

\* the credentials given to the constructor (lines 197-203)
Credentials ==
    [phone_number : BOOLEAN, phone_code : BOOLEAN, first_name : BOOLEAN,
     password : BOOLEAN]

NoCredentials ==
    [phone_number |-> FALSE, phone_code |-> FALSE, first_name |-> FALSE,
     password |-> FALSE]

\* no client was constructed yet and the working directory has no session file
NoStarting == Constructed(NoSessionFile, FALSE, FALSE, FALSE, NoCredentials)

StartFrame ==
    UNCHANGED <<lifeVars, workerVars, queueVars, dispatcher_updates_queue,
                media_sessions, doneEvents, channels_pts, peerVars, lastOp, countVars,
                saving, getting, media_sessions_lock, fetching, updCalls>>

MigrateErrors == {"PhoneMigrate", "NetworkMigrate", "UserMigrate"}

\* "await self.session.stop()" returns (lines 343, 523, 576): the session
\* that self.session names is stopped; running counts the main sessions that
\* were started and not stopped
SessionStopped(s) ==
    [s EXCEPT !.session.state = "stopped", !.stopped = @ + 1,
              !.running = IF s.session.state = "started" THEN @ - 1 ELSE @]

\* start(), lines 341-344: an exception of the authorization or of the
\* synchronisation clears is_started, stops the session and is raised
StartFails(s, exc) ==
    [SessionStopped(s) EXCEPT !.pc = "raised", !.is_started = FALSE, !.exc = exc]

\* a mutant of MigrateStopped: the session is left running
MigrateStoppedNever(s) == [s EXCEPT !.dc_id = s.answer.x, !.pc = "migrate_auth"]

\* lines 523-526 and 576-585: session.stop() has returned, dc_id is set to
\* the data center the error names and Auth(...).create() is awaited
MigrateStopped(s) ==
    [SessionStopped(s) EXCEPT !.dc_id = s.answer.x, !.pc = "migrate_auth"]

\* lines 526-534 and 580-593: the key exchange has returned, the key is kept,
\* a session is created for the data center and its start() is awaited
MigrateKeyed(s) ==
    [s EXCEPT !.auth_key = Negotiated(s.dc_id),
              !.session = [StartedSession(s.dc_id, Negotiated(s.dc_id))
                              EXCEPT !.state = "created"],
              !.created = @ + 1, !.pc = "migrate_start"]

\* lines 534-535 and 593: session.start() has returned; authorize_bot calls
\* itself and the loop of authorize_user runs again, which sends the request
\* once more
MigrateStarted(s) ==
    [s EXCEPT !.session.state = "started", !.running = @ + 1,
              !.pc = IF s.is_bot THEN "bot" ELSE "send_code"]

\* a mutant of Redirects: no migrate error is handled
RedirectsNever(step, err) == FALSE

\* the except clauses of lines 522 and 575: the migrate errors that are
\* caught, by the step whose request they answer
Redirects(step, err) ==
    \/ step = "send_code" /\ err \in {"PhoneMigrate", "NetworkMigrate"}
    \/ step = "bot" /\ err = "UserMigrate"

\* a mutant of Surfaces: FloodWait is raised whatever was supplied
SurfacesAlways(s, step) == TRUE

\* lines 601, 738 and 752: FloodWait is raised again when the credential of
\* the step was given to the constructor
Surfaces(s, step) ==
    CASE step = "send_code" -> s.phone_number_invalid_raises
      [] step = "sign" -> s.phone_code_invalid_raises \/ s.first_name_invalid_raises
      [] step = "password" -> s.password_invalid_raises
      [] OTHER -> TRUE

\* lines 604-605, 741-742 and 755-756: await asyncio.sleep(e.x)
Slept(s, x) == [s EXCEPT !.slept = @ + x]

\* self.send(request): the request reaches the session
Sends(s, request) == [s EXCEPT !.sent = Append(@, request)]

\* lines 770-771 and 537, then lines 318-321 of start(): the user id of the
\* answer is kept and the session is saved by the hook or by save_session
Authorized(s) ==
    LET c == [s EXCEPT !.user_id = 1, !.password = FALSE]
    IN  [c EXCEPT !.pc = "sync",
                  !.disk = IF s.save_session_hook THEN @ ELSE SessionFile(c)]

\* a client is constructed on the working directory and start() runs up to
\* "self.is_started = True" (lines 280-307).  Without a load hook line 296
\* calls the coroutine function load_session without awaiting it, so its body
\* never runs, and line 303 evaluates self.api_id.encode on the int of line
\* 215 or 1080.  A load hook is code of the application: it sets dc_id,
\* auth_key, user_id, date and an api_id that has encode.  ok: session.start()
\* does not raise.
StartCall(load_hook, save_hook, bot, credentials, dc_id, key, user_id, ok) ==
    /\ starting.pc = "none"
    /\ starting.exc = ""
    /\ LET c == Constructed(starting.disk, load_hook, save_hook, bot, credentials)
           h == [c EXCEPT !.dc_id = dc_id, !.auth_key = key, !.user_id = user_id,
                          !.date = 0]
           s == [h EXCEPT !.session = StartedSession(dc_id, key),
                          !.running = 1,
                          !.is_started = TRUE,
                          !.is_bot = IF user_id = None THEN bot ELSE @,
                          !.phone_number_invalid_raises = c.phone_number,
                          !.phone_code_invalid_raises = c.phone_code,
                          !.password_invalid_raises = c.password,
                          !.first_name_invalid_raises = c.first_name]
       IN  starting' =
               IF ~load_hook
               THEN [c EXCEPT !.pc = "raised", !.exc = "AttributeError"]
               ELSE IF ~ok
               THEN [h EXCEPT !.pc = "raised", !.exc = "ConnectError",
                              !.session = [StartedSession(dc_id, key)
                                              EXCEPT !.state = "created"]]
               ELSE [s EXCEPT !.pc = IF user_id # None THEN "sync"
                                     ELSE IF bot THEN "bot" ELSE "send_code"]
    /\ StartFrame

\* authorize_user, lines 557-610: one round of the first loop.  The phone
\* number is asked for when it is None, SendCode is sent and answered by a.
\* A migrate error that is caught enters the handler, whose first statement
\* awaits session.stop().
SendCode(a, registered) ==
    /\ starting.pc = "send_code"
    /\ Len(starting.sent) < MaxSends
    /\ LET p == [starting EXCEPT !.phone_number = TRUE]
           s == [Sends(p, "SendCode") EXCEPT !.answer = a]
       IN  starting' =
               CASE a.err = "" ->
                      [s EXCEPT !.pc = "sign", !.phone_registered = registered]
                 [] a.err \in MigrateErrors /\ Redirects("send_code", a.err) ->
                      [s EXCEPT !.pc = "migrate_stop"]
                 [] a.err = "PhoneNumberInvalid" ->
                      IF s.phone_number_invalid_raises THEN StartFails(s, a.err)
                      ELSE [s EXCEPT !.phone_number = FALSE]
                 [] a.err = "FloodWait" ->
                      IF Surfaces(s, "send_code") THEN StartFails(s, a.err)
                      ELSE Slept(s, a.x)
                 [] OTHER -> StartFails(s, a.err)
    /\ StartFrame

\* authorize_user, lines 628-761: one round of the second loop.  The names
\* and the phone code are asked for when they are None, then SignIn or SignUp
\* is sent and answered by a.
Sign(a) ==
    /\ starting.pc = "sign"
    /\ Len(starting.sent) < MaxSends
    /\ LET p == [starting EXCEPT !.first_name = @ \/ ~starting.phone_registered,
                                 !.phone_code = TRUE]
           request == IF starting.phone_registered THEN "SignIn" ELSE "SignUp"
           s == [Sends(p, request) EXCEPT !.answer = a]
       IN  starting' =
               CASE a.err = "" -> Authorized(s)
                 [] a.err = "PhoneNumberUnoccupied" /\ request = "SignIn" ->
                      [s EXCEPT !.phone_registered = FALSE]
                 [] a.err = "PhoneNumberOccupied" /\ request = "SignUp" ->
                      [s EXCEPT !.phone_registered = TRUE]
                 [] a.err = "PhoneCodeInvalid" ->
                      IF s.phone_code_invalid_raises THEN StartFails(s, a.err)
                      ELSE [s EXCEPT !.phone_code = FALSE]
                 [] a.err = "FirstnameInvalid" ->
                      IF s.first_name_invalid_raises THEN StartFails(s, a.err)
                      ELSE [s EXCEPT !.first_name = FALSE]
                 [] a.err = "SessionPasswordNeeded" -> [s EXCEPT !.pc = "password"]
                 [] a.err = "FloodWait" ->
                      IF Surfaces(s, "sign") THEN StartFails(s, a.err)
                      ELSE Slept(s, a.x)
                 [] OTHER -> StartFails(s, a.err)
    /\ StartFrame

\* authorize_user, lines 700-750: one round of the password loop.
\* GetPassword is sent, the password is asked for when it is None, and
\* CheckPassword is sent (empty: the password is "", so that the recovery
\* requests are sent instead).  a answers the last request sent; first: the
\* answer is an error of GetPassword.
Password(a, first, empty) ==
    /\ starting.pc = "password"
    /\ Len(starting.sent) + 1 < MaxSends
    /\ first => a.err # ""
    /\ empty => ~starting.password
    /\ LET p == IF first THEN starting
                ELSE [starting EXCEPT !.password = TRUE]
           q == IF first THEN Sends(p, "GetPassword")
                ELSE IF empty
                THEN Sends(Sends(p, "GetPassword"), "RequestPasswordRecovery")
                ELSE Sends(Sends(p, "GetPassword"), "CheckPassword")
           s == [q EXCEPT !.answer = a]
       IN  starting' =
               CASE a.err = "" ->
                      IF empty THEN Authorized(Sends(s, "RecoverPassword"))
                      ELSE Authorized(s)
                 [] a.err = "PasswordHashInvalid" ->
                      IF s.password_invalid_raises THEN StartFails(s, a.err)
                      ELSE [s EXCEPT !.password = FALSE]
                 [] a.err = "FloodWait" ->
                      IF Surfaces(s, "password") THEN StartFails(s, a.err)
                      ELSE [Slept(s, a.x) EXCEPT !.password = FALSE]
                 [] OTHER -> StartFails(s, a.err)
    /\ StartFrame

\* authorize_bot, lines 512-539: ImportBotAuthorization is sent and answered
\* by a; a UserMigrate enters the handler, whose first statement awaits
\* session.stop().
AuthorizeBot(a) ==
    /\ starting.pc = "bot"
    /\ Len(starting.sent) < MaxSends
    /\ LET s == [Sends(starting, "ImportBotAuthorization") EXCEPT !.answer = a]
       IN  starting' =
               CASE a.err = "" -> Authorized(s)
                 [] a.err \in MigrateErrors /\ Redirects("bot", a.err) ->
                      [s EXCEPT !.pc = "migrate_stop"]
                 [] OTHER -> StartFails(s, a.err)
    /\ StartFrame

\* the migrate handlers, lines 523-535 and 576-593: the call that is awaited
\* (session.stop(), Auth(...).create(), session.start()) returns, or raises
\* (~ok), which ends start()
Migrate(ok) ==
    /\ starting.pc \in {"migrate_stop", "migrate_auth", "migrate_start"}
    /\ starting' =
           IF ~ok THEN StartFails(starting, "ConnectError")
           ELSE CASE starting.pc = "migrate_stop" -> MigrateStopped(starting)
                  [] starting.pc = "migrate_auth" -> MigrateKeyed(starting)
                  [] OTHER -> MigrateStarted(starting)
    /\ StartFrame

\* start(), lines 323-360: the requests after the authorization
\* (InitTakeoutSession, the dialogs, GetState), answered by a
Sync(a) ==
    /\ starting.pc = "sync"
    /\ LET s == [Sends(starting, IF starting.is_bot THEN "GetState" ELSE "GetDialogs")
                    EXCEPT !.answer = a]
       IN  starting' = IF a.err = "" THEN [s EXCEPT !.pc = "started"]
                       ELSE StartFails(s, a.err)
    /\ StartFrame

\* save_session(), lines 1274-1292, called on the client
SaveSession ==
    /\ starting.pc \in {"none", "loaded"}
    /\ starting' = [starting EXCEPT !.pc = "none", !.disk = SessionFile(starting)]
    /\ StartFrame

\* the body of load_session, lines 1138-1153, run on the client when the
\* file exists
LoadSession ==
    /\ starting.pc \in {"none", "loaded"}
    /\ starting.disk.exists
    /\ starting' =
           IF Padded(Join(starting.disk.auth_key))
           THEN [Loaded(starting, starting.disk) EXCEPT !.pc = "loaded"]
           ELSE [starting EXCEPT !.pc = "raised", !.exc = "binascii.Error"]
    /\ StartFrame

(***************************************************************************)
(* The client after construction, and the life-cycle specification: one    *)
(* task of the application calls start() and stop() one after the other,   *)
(* other tasks call send() and request downloads at any time, and the      *)
(* session's receive loop hands over envelopes at any time.                *)
(***************************************************************************)
\* the attributes of a client after __init__ other than those of starting
Created ==
    /\ is_started = FALSE
    /\ session = "none"
    /\ takeout_id = None
    /\ startPc = "idle"
    /\ stopPc = "idle"
    /\ download_worker_tasks = <<>>
    /\ dlWorker = [w \in Workers |-> "none"]
    /\ dlCur = [w \in Workers |-> Poison]
    /\ updates_worker_task = "none"
    /\ updCur = Poison
    /\ updIdx = 1
    /\ download_queue = <<>>
    /\ updates_queue = <<>>
    /\ dispatcher_updates_queue = <<>>
    /\ media_sessions = EmptyMap
    /\ doneEvents = {}
    /\ channels_pts = EmptyMap
    /\ peers_by_id = EmptyMap
    /\ peers_by_username = EmptyMap
    /\ peers_by_phone = EmptyMap
    /\ lastOp = NoOp
    /\ nRequests = 0
    /\ nEnvelopes = 0
    /\ nextPts = 1
    /\ saving = NoSaving
    /\ getting = NoGetting
    /\ media_sessions_lock = None
    /\ fetching = NoFetching
    /\ updCalls = <<>>

Init ==
    /\ Created
    /\ starting = NoStarting

\* the channel of the updates fed to the worker
FedChannels == {7}

\* the envelopes of the life-cycle specification
LifeEnvelopes ==
    {Updates(<<>>, <<>>, <<Update("UpdateNewChannelMessage", c, 1, 1, FALSE)>>) :
        c \in FedChannels}

\* the answers of the remote calls of the life-cycle specification
LifeAnswers == {Raised, ChannelPrivate, DifferenceEmpty}

Start ==
    \/ StartRefused
    \/ \E how \in {"config", "connect", "ok"} : StartBegin(how)
    \/ \E takeout \in BOOLEAN, ok \in BOOLEAN : StartSync(TRUE, <<>>, takeout, ok)

Stop ==
    \/ StopRefused
    \/ \E ok \in BOOLEAN : StopBegin(ok)
    \/ StopSignal
    \/ StopAwaitDownload
    \/ StopAwaitUpdates
    \/ \E d \in DataCenters : StopMedia(d)
    \/ StopClose

\* the steps of the download worker task w
DownloadSteps(w) ==
    \/ DownloadGet(w)
    \/ \E how \in {"invalid", "setup", "import", "ok"} : DownloadSetup(w, how)
    \/ DownloadTransfer(w)

DownloadWorker == \E w \in Workers : DownloadSteps(w)

Next ==
    \/ Start
    \/ Stop
    \/ \E d \in DataCenters : EnqueueDownload(d)
    \/ DownloadWorker
    \/ \E envelope \in LifeEnvelopes : EnqueueUpdates(envelope)
    \/ UpdatesGet
    \/ \E answer \in LifeAnswers : UpdatesStep(answer)
    \/ \E answer \in {RpcError, Answer(<<>>, <<>>)} : Send(answer)

Spec == Init /\ [][Next]_vars

(***************************************************************************)
(* Claims on the life cycle.                                               *)
(***************************************************************************)
\* a step in which a new call of the method op returns or raises
Called(op) == lastOp' # lastOp /\ lastOp'.op = op

\* the state start() and stop() must leave alone when they refuse
Guarded == <<is_started, session, workerVars, queueVars, peerVars>>

\* C1: start() on a client whose is_started flag is set and stop() on a client
\* whose flag is clear raise ConnectionError and leave the flag, the main
\* session, the worker tasks, the queues and the peer directory unchanged
C1_RefusedCalls ==
    [][/\ (is_started /\ startPc = "idle" /\ Called("start")) =>
              (lastOp'.err = "ConnectionError" /\ UNCHANGED Guarded)
       /\ (~is_started /\ stopPc = "idle" /\ Called("stop")) =>
              (lastOp'.err = "ConnectionError" /\ UNCHANGED Guarded)]_vars

\* C1 witness: a client that ran and was stopped has refused a second stop()
C1_Witness ==
    /\ lastOp.op = "stop"
    /\ lastOp.err = "ConnectionError"
    /\ session = "stopped"
    /\ ~is_started

\* every download worker task and the updates worker task have terminated
WorkersTerminated ==
    /\ \A w \in Workers : dlWorker[w] = "done"
    /\ updates_worker_task = "done"

\* C2: while stop() closes the main session's link, every download worker and
\* the updates worker have terminated and the media-session map is empty, every
\* media session having been stopped before
C2_LinkClosedLast ==
    stopPc = "close" => (WorkersTerminated /\ media_sessions = EmptyMap)

\* C2 witness: stop() closes the link after a download created a media session
\* and an envelope was published
C2_Witness ==
    /\ stopPc = "close"
    /\ doneEvents # {}
    /\ dispatcher_updates_queue # <<>>

\* C3: from the moment stop() has begun, a send() call is refused
C3_SendRefusedDuringStop ==
    [][(stopPc # "idle" /\ Called("send")) => lastOp'.err = "ConnectionError"]_vars

\* the number of None values in a queue
RECURSIVE PoisonsIn(_)
PoisonsIn(q) ==
    IF q = <<>> THEN 0
    ELSE (IF Head(q) = Poison THEN 1 ELSE 0) + PoisonsIn(Tail(q))

\* no item of the queue stands in front of a None
PoisonsFirst(q) == \A i \in 1..Len(q) : \A j \in 1..Len(q) : (i < j /\ q[j] = Poison) => q[i] = Poison

\* the download workers that have not exited
LiveDownloadWorkers == {w \in Workers : dlWorker[w] # "done"}

\* the download requests a worker holds
HeldRequests == {dlCur[w].id : w \in {v \in Workers : dlWorker[v] \in {"busy", "transfer"}}}

\* the download requests waiting in the download queue
QueuedRequests ==
    {download_queue[i].id : i \in {k \in 1..Len(download_queue) : download_queue[k] # Poison}}

\* the download workers suspended in the transfer of a file
Transferring == {w \in Workers : dlWorker[w] = "transfer"}

C5_WorkerSurvives ==
    [][/\ updates_worker_task = "busy" => updates_worker_task' # "done"
       /\ (updates_worker_task # "done" /\ updates_worker_task' = "done") =>
              /\ updates_worker_task = "idle"
              /\ updates_queue # <<>>
              /\ Head(updates_queue) = Poison
              /\ updates_queue' = Tail(updates_queue)]_vars

\* a new channel message that is neither published nor recorded: its
\* processing raised
Dropped(envelope) ==
    /\ envelope.type = "Updates"
    /\ \E i \in 1..Len(envelope.updates) :
           /\ Tracked(envelope.updates[i])
           /\ ~Seen(envelope.updates[i].channel_id, envelope.updates[i].pts)

\* C5 witness: after an envelope whose processing raised, the worker has taken
\* the next envelope from the queue
C5_Witness ==
    /\ updates_worker_task = "busy"
    /\ nEnvelopes = 2
    /\ updates_queue = <<>>
    /\ dispatcher_updates_queue = <<>>
    /\ channels_pts = EmptyMap
    /\ Dropped(updCur)

(***************************************************************************)
(* The pts specification: a started client whose updates worker is fed     *)
(* channel updates of one channel.  The session hands over the next        *)
(* envelope once the worker has finished the one before: one with a fresh  *)
(* pts, or one that repeats pts 1.                                         *)
(***************************************************************************)
\* the client after a start() that returned
Started ==
    /\ is_started = TRUE
    /\ session = "started"
    /\ takeout_id = None
    /\ startPc = "idle"
    /\ stopPc = "idle"
    /\ download_worker_tasks = [i \in 1..DOWNLOAD_WORKERS |-> i]
    /\ dlWorker = [w \in Workers |-> "idle"]
    /\ dlCur = [w \in Workers |-> Poison]
    /\ updates_worker_task = "idle"
    /\ updCur = Poison
    /\ updIdx = 1
    /\ download_queue = <<>>
    /\ updates_queue = <<>>
    /\ dispatcher_updates_queue = <<>>
    /\ media_sessions = EmptyMap
    /\ doneEvents = {}
    /\ channels_pts = EmptyMap
    /\ peers_by_id = EmptyMap
    /\ peers_by_username = EmptyMap
    /\ peers_by_phone = EmptyMap
    /\ lastOp = Outcome("start", NoArg, "", NoArg, 0)
    /\ nRequests = 0
    /\ nEnvelopes = 0
    /\ nextPts = 1
    /\ saving = NoSaving
    /\ getting = NoGetting
    /\ media_sessions_lock = None
    /\ fetching = NoFetching
    /\ updCalls = <<>>
    /\ starting = NoStarting

\* a combined envelope that carries `copies` times the same channel update
\* with the next unused pts; the update is an edit, for which the worker makes
\* no remote call
FreshEnvelope(channel_id, copies) ==
    Updates(<<>>, <<>>,
            [i \in 1..copies |->
                Update("UpdateEditChannelMessage", channel_id, nextPts, 1, FALSE)])

\* the envelopes that repeat a pair: a new channel message with pts 1, for
\* which the worker calls GetChannelDifference
ReplayEnvelopes ==
    {Updates(<<>>, <<>>, <<Update("UpdateNewChannelMessage", c, 1, 1, FALSE)>>) :
        c \in FedChannels}

\* the session hands over the next envelope; fresh says that it carries the
\* next unused pts
EnqueueNext(envelope, fresh) ==
    /\ fresh => nextPts <= MaxPts
    /\ updates_worker_task = "idle"
    /\ updates_queue = <<>>
    /\ updates_queue' = <<envelope>>
    /\ nextPts' = IF fresh THEN nextPts + 1 ELSE nextPts
    /\ UNCHANGED <<callVars, lifeVars, workerVars, download_queue, dispatcher_updates_queue,
                   media_sessions, doneEvents, channels_pts, peerVars, lastOp,
                   nRequests, nEnvelopes>>

\* the answers of the remote calls of the pts specification
PtsAnswers == {NoCall, Raised, ChannelPrivate, DifferenceEmpty}

NextPts ==
    \/ \E c \in FedChannels, copies \in {1, 2} : EnqueueNext(FreshEnvelope(c, copies), TRUE)
    \/ \E envelope \in ReplayEnvelopes : EnqueueNext(envelope, FALSE)
    \/ UpdatesGet
    \/ \E answer \in PtsAnswers : UpdatesStep(answer)

SpecPts == Started /\ [][NextPts]_vars

(***************************************************************************)
(* Claims on the pts history.                                              *)
(***************************************************************************)
\* the number of published updates that carry the pair (channel_id, pts)
Published(channel_id, pts) ==
    Cardinality({i \in 1..Len(dispatcher_updates_queue) :
                    /\ dispatcher_updates_queue[i].update.channel_id = channel_id
                    /\ dispatcher_updates_queue[i].update.pts = pts})

\* the pts values remembered for a channel
Remembered(channel_id) == {History(channel_id)[i] : i \in 1..Len(History(channel_id))}

\* the worker finishes one update of a combined envelope in this step
Reaches == updates_worker_task = "busy" /\ updCur.type = "Updates" /\ updIdx' = updIdx + 1

\* C6 as stated: of the updates that carry the same (channel_id, pts) pair, no
\* second one is published, whatever arrives in between
C6_PublishedOnce ==
    \A c \in FedChannels : \A p \in 1..nextPts : Published(c, p) <= 1

\* C6 as amended: a channel update with non-zero channel_id and pts that the
\* worker reaches while its pts is in the channel's history is skipped; one it
\* reaches while its pts is not in the history is recorded and published, also
\* when the pair was published before and a cut of the history has dropped the
\* pts since.  Every remembered pts was published, and as long as no more than
\* 50 distinct pts values have arrived for the channel, exactly once.
C6_SkippedWhileRemembered ==
    /\ [][Reaches =>
            LET update == updCur.updates[updIdx]
                c == update.channel_id
                n == Len(dispatcher_updates_queue)
            IN  (Truthy(c) /\ Truthy(update.pts)) =>
                    IF Seen(c, update.pts)
                    THEN UNCHANGED <<dispatcher_updates_queue, channels_pts>>
                    ELSE /\ Len(dispatcher_updates_queue') = n + 1
                         /\ dispatcher_updates_queue'[n + 1].update = update
                         /\ c \in DOMAIN channels_pts'
                         /\ channels_pts'[c] # <<>>
                         /\ channels_pts'[c][Len(channels_pts'[c])] = update.pts]_vars
    /\ [](\A c \in FedChannels : \A p \in Remembered(c) :
            /\ Published(c, p) >= 1
            /\ nextPts <= HistoryLimit + 1 => Published(c, p) = 1)

\* C6 witness: pts 1 arrived in an edit, other updates arrived, pts 1 arrived
\* again in a new channel message, which the worker reached and skipped
C6_Witness ==
    /\ updates_worker_task = "idle"
    /\ updCur.type = "Updates"
    /\ updCur.updates[1].type = "UpdateNewChannelMessage"
    /\ updIdx = 2
    /\ nextPts > 3
    /\ dispatcher_updates_queue[1].update.type = "UpdateEditChannelMessage"
    /\ \A c \in FedChannels : Published(c, 1) = 1 /\ Seen(c, 1)

\* a step that records a pts in a history of 50 entries
Overflows(channel_id) ==
    /\ Len(History(channel_id)) = HistoryLimit
    /\ channels_pts' # channels_pts

EachOnce(channel_id) == \A p \in 1..(nextPts - 1) : Published(channel_id, p) = 1

EntityLists == SeqsUpTo(Entities, MaxEntities)

\* the entities that carry an access hash
Hashed == {e \in Entities : e.access_hash # None}

\* the answers of the remote calls of the peer specification
PeerAnswers ==
    {RpcError, Answer(<<>>, <<>>)}
    \cup {Answer(<<u>>, <<c>>) : u \in Hashed \cap UserEntities, c \in Hashed \cap ChannelEntities}

\* the arguments resolve_peer is called with
PeerIds ==
    {IntPeer(u) : u \in UserIds}
    \cup {IntPeer(ChatPeerId(c)) : c \in ChatIds}
    \cup {StrPeer(<<"@", "B", "o", "b">>), StrPeer(<<"3", "9">>), StrPeer(<<"m", "e">>)}

NextPeers ==
    \/ StartRefused
    \/ \E how \in {"config", "connect", "ok"} : StartBegin(how)
    \/ \E stale \in BOOLEAN, entities \in {<<>>} \cup {<<e>> : e \in Hashed}, ok \in BOOLEAN :
           StartSync(stale, entities, FALSE, ok)
    \/ StopRefused
    \/ StopBegin(TRUE)
    \/ StopSignal
    \/ \E w \in Workers : DownloadGet(w)
    \/ StopAwaitDownload
    \/ UpdatesGet
    \/ StopAwaitUpdates
    \/ StopClose
    \/ \E entities \in EntityLists : FetchPeers(entities)
    \/ \E answer \in PeerAnswers : Send(answer)
    \/ \E peer_id \in PeerIds, answer \in PeerAnswers : ResolvePeer(peer_id, answer)

SpecPeers == Init /\ [][NextPeers]_vars

(***************************************************************************)
(* The resolve specification: resolve_peer is called with integers of      *)
(* every form and with strings, on a client that was never started and on  *)
(* a started one, between calls of fetch_peers.                            *)
(***************************************************************************)
\* integers of each form resolve_peer tells apart that are no key of a fetched
\* entity: zero, the bare prefix "-100", a channel id with a leading zero after
\* the prefix, and a chat that only an answer carries
OddIds == {0, -100, -10001, -2}

\* a basic chat that only the answer of a lookup carries
AnswerChat ==
    [type |-> "Chat", id |-> 2, access_hash |-> None, username |-> NoneStr,
     phone |-> NoneStr]

\* the answers of the remote calls of the resolve specification
ResolveAnswers == PeerAnswers \cup {Answer(<<>>, <<AnswerChat>>)}

\* the arguments resolve_peer is called with
ResolveIds == PeerIds \cup {IntPeer(n) : n \in OddIds}

NextResolve ==
    \/ \E entities \in EntityLists : FetchPeers(entities)
    \/ \E peer_id \in ResolveIds, answer \in ResolveAnswers : ResolvePeer(peer_id, answer)

SpecResolve == (Init \/ Started) /\ [][NextResolve]_vars

(***************************************************************************)
(* Claims on the peer directory.                                           *)
(***************************************************************************)
\* the references of a map that stand for a user or a channel
NeedsHash(ref) == ref.type \in {"InputPeerUser", "InputPeerChannel"}

\* every user and channel reference of the map carries an access hash
AllHashed(d) == \A k \in DOMAIN d : NeedsHash(d[k]) => d[k].access_hash # None

\* the users and channels of a list of entities that lack an access hash
Hashless(entities) ==
    {i \in 1..Len(entities) :
        entities[i].type \in {"User", "Channel"} /\ entities[i].access_hash = None}

\* C8: across fetch_peers, send, resolve_peer, start and stop, a key of the
\* primary peer map is never removed; every user and channel reference stored
\* in one of the three maps carries an access hash; fetch_peers with a user or
\* channel entity that lacks an access hash changes none of the three maps
C8_AppendOnlyHashed ==
    /\ [][/\ DOMAIN peers_by_id \subseteq DOMAIN peers_by_id'
          /\ (Called("fetch_peers")
                 /\ Hashless(lastOp'.arg) = 1..Len(lastOp'.arg)) => UNCHANGED peerVars]_vars
    /\ [](/\ AllHashed(peers_by_id)
          /\ AllHashed(peers_by_username)
          /\ AllHashed(peers_by_phone)
          /\ \A e \in Entities \ Hashed : e.type # "Chat" => FetchEntity(CurPeers, e) = CurPeers)

\* C8 witness: the client was restarted after an absence, which emptied the
\* secondary maps and kept the primary one, and fetch_peers was then called
\* with a user that lacks an access hash
C8_Witness ==
    /\ is_started
    /\ \E k \in DOMAIN peers_by_id : peers_by_id[k].type = "InputPeerUser"
    /\ peers_by_username = EmptyMap
    /\ lastOp.op = "fetch_peers"
    /\ lastOp.arg # <<>>
    /\ Hashless(lastOp.arg) = 1..Len(lastOp.arg)
    /\ lastOp.arg[1].type = "User"

\* the last call was fetch_peers with the entity e in its list
Fetched(e) ==
    /\ lastOp.op = "fetch_peers"
    /\ \E i \in 1..Len(lastOp.arg) : lastOp.arg[i] = e

\* C9: after fetch_peers with a channel of id K and access hash H,
\* resolve_peer on the integer written "-100" followed by K returns, without a
\* remote call, a channel reference carrying K and H; a basic chat of id C is
\* stored under the key -C; and no key of the primary map ever passes from a
\* channel to a basic chat or from a basic chat to a channel
C9_ChannelKeys ==
    /\ [][/\ \A e \in Hashed \cap ChannelEntities :
                (Fetched(e) /\ Called("resolve_peer")
                    /\ lastOp'.arg = IntPeer(ChannelPeerId(e.id))) =>
                        /\ lastOp'.err = ""
                        /\ lastOp'.remote = 0
                        /\ lastOp'.ret = InputPeerChannel(e.id, e.access_hash)
          /\ \A k \in DOMAIN peers_by_id \cap DOMAIN peers_by_id' :
                {peers_by_id[k].type, peers_by_id'[k].type}
                    # {"InputPeerChat", "InputPeerChannel"}]_vars
    /\ [](\A k \in DOMAIN peers_by_id :
            peers_by_id[k].type = "InputPeerChat" => k = -peers_by_id[k].id)

\* the last call was fetch_peers with a user of this id that lacks an access
\* hash, and no operation has stored the user
HashlessFetched(user_id) ==
    /\ user_id \notin DOMAIN peers_by_id
    /\ \E e \in UserEntities : e.id = user_id /\ e.access_hash = None /\ Fetched(e)

\* C10 as stated, for a started client whose remote call raises no RPC error:
\* after fetch_peers with a user that lacks an access hash, resolve_peer by the
\* user's id fails with PeerIdInvalid
C10_FailsNotFound ==
    [][\A u \in UserIds :
          (/\ HashlessFetched(u)
           /\ is_started
           /\ Called("resolve_peer")
           /\ lastOp'.arg = IntPeer(u)
           /\ lastOp'.err # "RPCError") => lastOp'.err = "PeerIdInvalid"]_vars

\* C10 as amended: after fetch_peers with a user that lacks an access hash,
\* resolve_peer by the user's id finds no reference and looks the user up with
\* a remote call.  On a client that is not started the call is refused with
\* ConnectionError; an RPC error of the call is raised to the caller; when the
\* answer carries the user with an access hash the user is stored and the
\* reference is returned; otherwise resolve_peer fails with PeerIdInvalid.
C10_LookedUpFirst ==
    [][\A u \in UserIds :
          (HashlessFetched(u) /\ Called("resolve_peer") /\ lastOp'.arg = IntPeer(u)) =>
              /\ lastOp'.err \in {"ConnectionError", "RPCError", "PeerIdInvalid", ""}
              /\ lastOp'.err = "ConnectionError" <=> ~is_started
              /\ lastOp'.remote = IF is_started THEN 1 ELSE 0
              /\ lastOp'.err = "" <=> u \in DOMAIN peers_by_id'
              /\ lastOp'.err = "" => /\ lastOp'.ret = peers_by_id'[u]
                                     /\ lastOp'.ret.access_hash # None
              /\ lastOp'.err \in {"ConnectionError", "RPCError"} => UNCHANGED peerVars]_vars

\* C10 witness: on a started client resolve_peer by the id of a user that is
\* not stored made one remote call and failed with PeerIdInvalid
C10_Witness ==
    /\ is_started
    /\ lastOp.op = "resolve_peer"
    /\ lastOp.arg \in {IntPeer(u) : u \in UserIds}
    /\ lastOp.err = "PeerIdInvalid"
    /\ lastOp.remote = 1
    /\ lastOp.arg.int \notin DOMAIN peers_by_id

(***************************************************************************)
(* Claims on resolve_peer.                                                 *)
(***************************************************************************)
\* the channel ids K for which n is written "-100" followed by decimal digits
\* that read K
ChannelForm(n) ==
    {K \in 0..99 : \E d \in 1..2 : K < Pow10(d) /\ n = -(100 * Pow10(d) + K)}

\* the lookup the form of n asks for
ExpectedLookup(n) ==
    IF n > 0 THEN GetUsers(n)
    ELSE IF ChannelForm(n) # {} THEN GetChannels(CHOOSE K \in ChannelForm(n) : TRUE)
    ELSE GetChats(-n)

\* a step in which resolve_peer is called with an integer that is no key of
\* the primary map
MissedId(n) ==
    /\ Called("resolve_peer")
    /\ lastOp'.arg = IntPeer(n)
    /\ n \notin DOMAIN peers_by_id

\* the integers resolve_peer is called with
ResolvedInts == {p.int : p \in {q \in ResolveIds : q.kind = "int"}}

\* C11 as stated, on a started client: for an integer absent from the primary
\* map resolve_peer issues exactly one remote lookup and either returns the
\* entry or fails with PeerIdInvalid; no other outcome is possible
C11_FoundOrNotFound ==
    [][\A n \in ResolvedInts :
          (MissedId(n) /\ is_started) =>
              /\ Len(lastOp'.calls) = 1
              /\ lastOp'.err \in {"", "PeerIdInvalid"}]_vars

\* C11 as amended: for an integer absent from the primary map resolve_peer
\* chooses the lookup by the id's form (positive: GetUsers with the id; "-100"
\* followed by digits: GetChannels with the number the digits read; any other
\* non-positive id: GetChats with the negated id).  The bare "-100" raises
\* ValueError without a call; on a client that is not started the call is
\* refused with ConnectionError; otherwise exactly that one request reaches the
\* session, an RPC error of it is raised to the caller, and after an answer the
\* primary map is looked up once more: the entry now present is returned, and
\* PeerIdInvalid is raised when there is none
C11_LookupByForm ==
    [][\A n \in ResolvedInts :
          MissedId(n) =>
              IF n = -100
              THEN /\ lastOp'.err = "ValueError"
                   /\ lastOp'.calls = <<>>
                   /\ UNCHANGED peerVars
              ELSE IF ~is_started
              THEN /\ lastOp'.err = "ConnectionError"
                   /\ lastOp'.calls = <<>>
                   /\ UNCHANGED peerVars
              ELSE /\ lastOp'.calls = <<ExpectedLookup(n)>>
                   /\ lastOp'.err \in {"RPCError", "", "PeerIdInvalid"}
                   /\ lastOp'.err = "RPCError" => UNCHANGED peerVars
                   /\ lastOp'.err = "" <=> n \in DOMAIN peers_by_id'
                   /\ lastOp'.err = "" => lastOp'.ret = peers_by_id'[n]]_vars

\* C11 witness: resolve_peer(-2) asked for the basic chat 2, the answer
\* carried it, and the reference now stored was returned
C11_Witness ==
    /\ is_started
    /\ lastOp.op = "resolve_peer"
    /\ lastOp.arg = IntPeer(-2)
    /\ lastOp.calls = <<GetChats(2)>>
    /\ lastOp.err = ""
    /\ lastOp.ret = InputPeerChat(2)
    /\ peers_by_id[-2] = InputPeerChat(2)

\* the strings resolve_peer is called with that are no integer after the
\* normalisation, each with the name it stands for
NamedStrings == {<<StrPeer(<<"@", "B", "o", "b">>), <<"b", "o", "b">>>>}

\* C12 as stated, on a started client whose remote call raises no RPC error: a
\* name that cannot be found on the username path is reported with the error
\* of the numeric and phone paths, PeerIdInvalid
C12_SameNotFoundKind ==
    [][\A sn \in NamedStrings :
          (/\ Called("resolve_peer")
           /\ lastOp'.arg = sn[1]
           /\ is_started
           /\ lastOp'.err \notin {"", "RPCError"}) => lastOp'.err = "PeerIdInvalid"]_vars

\* C12 as amended: resolve_peer on a string other than "self" and "me" that
\* is no integer after '@', '+' and whitespace were removed and it was
\* lowercased returns the username map's entry without a remote call when the
\* name is present.  When it is absent, on a started client exactly one
\* ResolveUsername request reaches the session and the name is looked up once
\* more: the entry is returned, an RPC error of the call is raised to the
\* caller, and a name that is still absent raises KeyError, not the
\* PeerIdInvalid of the numeric and phone paths.  On a client that is not
\* started the call is refused with ConnectionError.
C12_UsernamePath ==
    [][\A sn \in NamedStrings :
          (Called("resolve_peer") /\ lastOp'.arg = sn[1]) =>
              IF sn[2] \in DOMAIN peers_by_username
              THEN /\ lastOp'.err = ""
                   /\ lastOp'.ret = peers_by_username[sn[2]]
                   /\ lastOp'.calls = <<>>
                   /\ UNCHANGED peerVars
              ELSE IF ~is_started
              THEN /\ lastOp'.err = "ConnectionError"
                   /\ lastOp'.calls = <<>>
                   /\ UNCHANGED peerVars
              ELSE /\ lastOp'.calls = <<ResolveUsername(sn[2])>>
                   /\ lastOp'.err \in {"RPCError", "", "KeyError"}
                   /\ lastOp'.err = "RPCError" => UNCHANGED peerVars
                   /\ lastOp'.err = "" <=> sn[2] \in DOMAIN peers_by_username'
                   /\ lastOp'.err = "" => lastOp'.ret = peers_by_username'[sn[2]]]_vars

\* C12 witness: on a started client the name was absent, one ResolveUsername
\* request was answered without the name, and the second lookup raised KeyError
C12_Witness ==
    /\ is_started
    /\ lastOp.op = "resolve_peer"
    /\ lastOp.arg.kind = "str"
    /\ lastOp.err = "KeyError"
    /\ lastOp.calls = <<ResolveUsername(<<"b", "o", "b">>)>>
    /\ <<"b", "o", "b">> \notin DOMAIN peers_by_username

\* the peer directory alone: responses and envelopes whose entities are
\* harvested, in any order, on a client that was started or never was
NextFetch == \E entities \in EntityLists : FetchPeers(entities)

SpecFetch == (Init \/ Started) /\ [][NextFetch]_vars

(***************************************************************************)
(* Claims on the three maps together.                                      *)
(***************************************************************************)
\* the key of the primary map under which fetch_peers stores a reference
KeyOf(ref) ==
    CASE ref.type = "InputPeerUser" -> ref.id
      [] ref.type = "InputPeerChannel" -> ChannelPeerId(ref.id)
      [] OTHER -> ChatPeerId(ref.id)

\* every entry of the secondary map d is the primary map's entry for its peer
Agrees(d) ==
    \A k \in DOMAIN d :
        /\ KeyOf(d[k]) \in DOMAIN peers_by_id
        /\ peers_by_id[KeyOf(d[k])] = d[k]

\* C13: in every reachable state every entry of the username map and of the
\* phone map is the primary map's current entry for that peer's numeric id
C13_SecondaryAgree == Agrees(peers_by_username) /\ Agrees(peers_by_phone)

\* the maps a list of entities writes, whatever the directory held before
Written(entities) == FetchPeersOf(Peers(EmptyMap, EmptyMap, EmptyMap), entities)

\* the map d with the entries of w written over it
Override(d, w) == [k \in DOMAIN d \cup DOMAIN w |-> IF k \in DOMAIN w THEN w[k] ELSE d[k]]

\* the directory m with the maps w written over it
Overridden(m, w) ==
    Peers(Override(m.id, w.id), Override(m.username, w.username),
          Override(m.phone, w.phone))

\* two maps give the same value to every key they share
Same(d, w) == \A k \in DOMAIN d \cap DOMAIN w : d[k] = w[k]

\* two lists of entities write no key of a map with different references
Compatible(A, B) ==
    /\ Same(Written(A).id, Written(B).id)
    /\ Same(Written(A).username, Written(B).username)
    /\ Same(Written(A).phone, Written(B).phone)

\* C14 as stated: fetch_peers(A) followed by fetch_peers(B) leaves the three
\* maps as fetch_peers(B) followed by fetch_peers(A) does
C14_Commute ==
    \A A \in EntityLists, B \in EntityLists :
        FetchPeersOf(FetchPeersOf(CurPeers, A), B)
            = FetchPeersOf(FetchPeersOf(CurPeers, B), A)

\* the pairs of lists that write no key with different references
CompatiblePairs ==
    {pair \in EntityLists \X EntityLists : Compatible(pair[1], pair[2])}

\* C14 as amended: fetch_peers writes each key its list writes over whatever
\* the maps held before, so that of two calls the later one wins every key
\* both write; the two orders leave the same maps when the lists write no key
\* (a numeric key, a lowercased username, a phone) with different references
C14_LaterWins ==
    /\ \A A \in EntityLists :
           FetchPeersOf(CurPeers, A) = Overridden(CurPeers, Written(A))
    /\ \A pair \in CompatiblePairs :
           FetchPeersOf(FetchPeersOf(CurPeers, pair[1]), pair[2])
               = FetchPeersOf(FetchPeersOf(CurPeers, pair[2]), pair[1])

\* C14 witness: the directory holds a basic chat under the key that a channel
\* of the lists would take, and a user whose username a channel of the lists
\* carries
C14_Witness ==
    /\ \E k \in DOMAIN peers_by_id :
           /\ peers_by_id[k].type = "InputPeerChat"
           /\ \E e \in Hashed \cap ChannelEntities : ChannelPeerId(e.id) = k
    /\ \E k \in DOMAIN peers_by_username :
           /\ peers_by_username[k].type = "InputPeerUser"
           /\ \E e \in Hashed \cap ChannelEntities : Lower(e.username) = k
    /\ \E A \in EntityLists, B \in EntityLists :
           /\ A # B
           /\ Compatible(A, B)
           /\ Written(A).id # EmptyMap
           /\ Written(B).id # EmptyMap

(***************************************************************************)
(* The upload specification: calls of save_file one after the other, on    *)
(* files of the sizes at which its behaviour changes.                      *)
(***************************************************************************)
\* the largest part number passed to save_file, next to the first part past
\* the end of the big file
MaxFilePart == 1

\* the sizes of the files uploaded: empty, one byte, one part and a byte, the
\* threshold of big files and a byte more, a byte more than the limit
FileSizes == {0, 1, part_size + 1, BigLimit, BigLimit + 1, UploadLimit + 1}

\* the file_id arguments: none, zero, an identifier
FileIds == {None, 0, 7}

\* the file_part arguments: the first parts, and the part that follows the
\* last part of the big file
FileParts == (0..MaxFilePart) \cup {Ceil(BigLimit + 1, part_size)}

NextUpload ==
    \/ \E file_size \in FileSizes, file_id \in FileIds, file_part \in FileParts,
          progress \in BOOLEAN : SaveFile(file_size, file_id, file_part, progress)
    \/ \E started \in 0..3 : started <= Len(saving.pool) /\ SaveStart(started)
    \/ SaveRead
    \/ \E outcome \in ProgressOutcomes : SavePut(outcome)
    \/ \E ok \in BOOLEAN : SaveWorker(ok)
    \/ SavePoison
    \/ SaveReturn

SpecUpload == Init /\ [][NextUpload]_vars

(***************************************************************************)
(* Claims on save_file.                                                    *)
(***************************************************************************)
\* a call of save_file was made
SaveCalled == saving.pc # "none"

\* the requests built by the call so far: sent, queued, or about to be queued
SaveRequests ==
    {saving.sent[i] : i \in 1..Len(saving.sent)}
        \cup ({saving.queue[i] : i \in 1..Len(saving.queue)} \ {QueueNone})
        \cup ({saving.rpc} \ {QueueNone})

\* the workers of the call that feed the session of index i in the pool
WorkersOn(i) == {w \in 1..Len(saving.workers) : saving.workers[w] = i}

\* C15: save_file rejects a zero-byte file and a file larger than 1500 MiB
\* with an error before any auxiliary session is created or started, before
\* any worker is spawned and before any part is read or enqueued
C15_RejectedFirst ==
    (/\ SaveCalled
     /\ \/ saving.args.file_size = 0
        \/ saving.args.file_size > 1500 * 1024 * 1024)
        => /\ saving.pc = "raised"
           /\ lastOp = Outcome("save_file", saving.args, "ValueError", NoResult, 0)
           /\ saving.pool = <<>>
           /\ saving.workers = <<>>
           /\ saving.reads = 0
           /\ SaveRequests = {}

\* C15 witness: a file of more than 1500 MiB was refused
C15_Witness ==
    /\ saving.pc = "raised"
    /\ saving.args.file_size > 1500 * 1024 * 1024
    /\ lastOp.op = "save_file"
    /\ lastOp.err = "ValueError"

\* C16: an accepted file is uploaded in big-file mode (3 sessions with 4
\* workers each, big-file part requests, no MD5) exactly when its size is
\* greater than 10 MiB, and otherwise by 1 session with 1 worker and
\* small-file part requests
C16_BigAboveTenMiB ==
    saving.pool # <<>>
        => IF saving.args.file_size > 10 * 1024 * 1024
           THEN /\ Len(saving.pool) = 3
                /\ \A i \in 1..3 : Cardinality(WorkersOn(i)) = 4
                /\ Len(saving.workers) = 12
                /\ \A rpc \in SaveRequests : rpc.fn = "upload.SaveBigFilePart"
                /\ saving.md5_sum = NoMd5
                /\ saving.ret.type \in {"None", "InputFileBig"}
           ELSE /\ Len(saving.pool) = 1
                /\ saving.workers = <<1>>
                /\ \A rpc \in SaveRequests : rpc.fn = "upload.SaveFilePart"
                /\ saving.ret.type \in {"None", "InputFile"}

\* C16 witness: a file of 10 MiB and a byte was uploaded whole, in 21 parts
C16_Witness ==
    /\ saving.pc = "returned"
    /\ saving.args.file_size = 10 * 1024 * 1024 + 1
    /\ saving.ret.type = "InputFileBig"
    /\ Len(saving.sent) = 21

\* a call of save_file with an explicit file_id, accepted for its size, ended
ResumeEnded ==
    /\ saving.pc \in {"returned", "raised"}
    /\ saving.pool # <<>>
    /\ saving.args.file_id # None

\* the part request of the call's arguments, carrying file_id
PartRequest(file_id) ==
    LET bytes == ChunkAt(saving.args.file_size, saving.args.file_part)
    IN  IF saving.args.file_size > 10 * 1024 * 1024
        THEN SaveBigFilePart(file_id, saving.args.file_part,
                             Ceil(saving.args.file_size, 512 * 1024), bytes)
        ELSE SaveFilePart(file_id, saving.args.file_part, bytes)

PartReadable ==
    /\ saving.reads = 1
    /\ 512 * 1024 * saving.args.file_part < saving.args.file_size

EndedOn(exc) ==
    /\ saving.pc \in {"returned", "raised"}
    /\ saving.reported > 0
    /\ saving.exc = exc

\* the finally block of the call has run: a None for every worker, every
\* worker returned, the queue is empty and every session is stopped
CleanedUp ==
    /\ saving.poisons = Len(saving.workers)
    /\ saving.running = 0
    /\ saving.queue = <<>>
    /\ \A i \in 1..Len(saving.pool) : saving.pool[i] = "stopped"

CdnChunks(chunks) ==
    {Encrypted(s) : s \in UnitSeqs(0) \cup UnitSeqs(1) \cup UnitSeqs(LimitUnits - 1)}
        \cup (IF chunks + 1 < MaxChunks
              THEN {Encrypted(s) : s \in UnitSeqs(LimitUnits)} ELSE {})

NextDownload ==
    \/ \E progress \in BOOLEAN, cdn_ok \in BOOLEAN,
          r \in GetFileAnswers(0) \cup {FileCdnRedirect, Unexpected} :
              GetFile(progress, r, cdn_ok)
    \/ GetFileDirectEnd
    \/ \E outcome \in ProgressOutcomes, r \in GetFileAnswers(getting.chunks + 1) :
           GetFileDirectChunk(outcome, r)
    \/ \E how \in {"ok", "VolumeLocNotFound", "upload.GetCdnFile",
                    "upload.ReuploadCdnFile", "upload.GetCdnFileHashes"} :
           GetFileCdnOther(how)
    \/ \E bytes \in CdnChunks(getting.chunks), outcome \in ProgressOutcomes :
           \E hashes \in HashLists(getting.offset \div Unit, Len(bytes)) :
               GetFileCdnChunk(bytes, hashes, outcome)
    \/ GetFileDone

SpecDownload == Init /\ [][NextDownload]_vars

(***************************************************************************)
(* Claims on get_file.                                                     *)
(***************************************************************************)
\* get_file ended without a file: "" was returned and no scratch file is left;
\* once the worker is done with the request, no path is reported, no file is
\* at the destination and the done event is set
EndedEmpty ==
    /\ getting.pc \in {"returned", "done"}
    /\ getting.ret = ""
    /\ ~getting.scratch.exists
    /\ getting.pc = "done"
           => /\ getting.path = "None"
              /\ ~getting.dest.exists
              /\ getting.done

\* C19: when the progress callback raises the stop signal during get_file, on
\* the direct path and on the CDN path alike, the scratch file is removed and
\* get_file returns "" instead of raising, so that the download request
\* completes with no path
C19_StopEndsEmpty ==
    getting.exc = "StopTransmission"
        => /\ getting.route \in {"direct", "cdn"}
           /\ getting.reported > 0
           /\ EndedEmpty

\* C19 witness: on the CDN path the callback raised the stop signal at its
\* second report, and the worker completed the request
C19_Witness ==
    /\ getting.exc = "StopTransmission"
    /\ getting.route = "cdn"
    /\ getting.reported = 2
    /\ getting.pc = "done"

\* the last CDN chunk differs, over the range of one of the hashes supplied
\* for it, from what that hash was taken of
Mismatch ==
    /\ getting.route = "cdn"
    /\ getting.hashes # <<>>
    /\ \E j \in 1..Len(getting.hashes) :
           LET h == getting.hashes[j]
               from == h.offset - getting.hashes[1].offset
           IN  h.hash # Sha256(Slice(getting.decrypted_chunk, from, from + h.limit))

\* C20: a CDN chunk whose decrypted content does not match a server-supplied
\* range hash aborts the download: the chunk is not written, the scratch file
\* is removed, get_file returns "" and no file is left at the destination
C20_MismatchAborts ==
    Mismatch
        => /\ getting.exc = "AssertionError"
           /\ EndedEmpty

\* C21: if the reupload request made after a CDN 'reupload needed' answer
\* fails with 'volume not found', the loop ends without an error and the
\* download yields no file: get_file returns "" and no scratch or output file
\* is left behind
C21_VolumeNotFoundNoFile ==
    getting.exc = "VolumeLocNotFound" => EndedEmpty


(***************************************************************************)
(* The session file alone: save_session and load_session are called on a   *)
(* client whose attributes are drawn from small sets.                      *)
(***************************************************************************)
\* the keys of up to MaxKeyLen bytes, and keys around the chunk length
MaxKeyLen == 4

KeyLens == (0..MaxKeyLen) \cup {30, 32, 64, AuthKeyLen}

SessionKeys == {Key(n, seed) : n \in KeyLens, seed \in {0, 131}}

SessionClients ==
    {[NoStarting EXCEPT !.dc_id = d, !.test_mode = t, !.auth_key = k, !.user_id = u,
                        !.date = date, !.is_bot = b] :
        d \in DataCenters, t \in BOOLEAN, k \in SessionKeys, u \in {None, 1},
        date \in {0, 5}, b \in BOOLEAN}

InitSession ==
    /\ Created
    /\ starting \in SessionClients

NextSession ==
    \/ SaveSession
    \/ LoadSession

SpecSession == InitSession /\ [][NextSession]_vars

\* the attributes that save_session writes and load_session reads
Attributes(c) ==
    <<c.dc_id, c.test_mode, c.user_id, c.date, c.is_bot, c.auth_key>>

\* the chunks are consecutive pieces of KeyChunk characters, the last one
\* possibly shorter and none empty
Chunked(chunks) ==
    \A k \in 1..Len(chunks) :
        /\ Len(chunks[k]) >= 1
        /\ Len(chunks[k]) <= KeyChunk
        /\ k < Len(chunks) => Len(chunks[k]) = KeyChunk

\* C25: save_session followed by load_session reproduces dc_id, test_mode,
\* user_id, date, is_bot and the exact auth key: the encoded key is cut into
\* consecutive chunks of 43 characters (the last possibly shorter) that
\* re-join to the encoding, for a key of any length
C25_SessionRoundTrip ==
    LET s == SessionFile(starting)
    IN  /\ Chunked(s.auth_key)
        /\ Join(s.auth_key) = b64encode(starting.auth_key)
        /\ Attributes(Loaded(starting, s)) = Attributes(starting)
        /\ starting.pc = "loaded" => Attributes(starting) = Attributes(Loaded(starting, starting.disk))

\* a key whose encoding takes several chunks, the last one shorter, was saved
\* and loaded
C25_Witness ==
    /\ starting.pc = "loaded"
    /\ Len(starting.disk.auth_key) > 2
    /\ Len(starting.disk.auth_key[Len(starting.disk.auth_key)]) < KeyChunk
    /\ starting.user_id = None


(***************************************************************************)
(* The authorization: clients are constructed on one working directory and *)
(* started, and the server answers each request of start() with a result   *)
(* or with an error.                                                       *)
(***************************************************************************)
\* the data center a migrate error names
OtherDc == 2

\* the answers with one of the error kinds errs: an error carries a number, a
\* data center for a migrate error and seconds for FloodWait
AuthAnswers(errs) ==
    {AuthAnswer(e, IF e \in MigrateErrors THEN OtherDc ELSE IF e = "FloodWait" THEN 3 ELSE 0) :
        e \in errs}

SendCodeAnswers ==
    AuthAnswers({"", "PhoneMigrate", "NetworkMigrate", "UserMigrate",
                 "PhoneNumberInvalid", "FloodWait", "RPCError"})

SignAnswers ==
    AuthAnswers({"", "PhoneMigrate", "UserMigrate", "PhoneNumberUnoccupied",
                 "PhoneNumberOccupied", "PhoneCodeInvalid", "FirstnameInvalid",
                 "SessionPasswordNeeded", "FloodWait", "RPCError"})

PasswordAnswers ==
    AuthAnswers({"", "PasswordHashInvalid", "UserMigrate", "FloodWait", "RPCError"})

BotAnswers == AuthAnswers({"", "UserMigrate", "PhoneMigrate", "FloodWait", "RPCError"})

SyncAnswers == AuthAnswers({"", "NetworkMigrate", "RPCError"})

\* the session file an earlier run left in the working directory
EarlierFile ==
    SessionFile([NoStarting EXCEPT !.dc_id = OtherDc, !.auth_key = Negotiated(OtherDc),
                                   !.user_id = 1, !.date = 0])

\* the working directory holds no session file, or the file of an earlier run
InitAuth ==
    /\ Created
    /\ starting \in {[NoStarting EXCEPT !.disk = d] : d \in {NoSessionFile, EarlierFile}}

\* the clients that are constructed: a bot is given no credentials of a user
Constructions ==
    {c \in [load_hook : BOOLEAN, save_hook : BOOLEAN, bot : BOOLEAN,
            credentials : Credentials] :
        c.bot => c.credentials = NoCredentials}

NextAuth ==
    \/ \E c \in Constructions, user_id \in {None, 1}, ok \in BOOLEAN :
          StartCall(c.load_hook, c.save_hook, c.bot, c.credentials, OwnDc,
                    Negotiated(OwnDc), user_id, ok)
    \/ \E a \in SendCodeAnswers, registered \in BOOLEAN : SendCode(a, registered)
    \/ \E ok \in BOOLEAN : Migrate(ok)
    \/ \E a \in SignAnswers : Sign(a)
    \/ \E a \in PasswordAnswers, first \in BOOLEAN, empty \in BOOLEAN :
          Password(a, first, empty)
    \/ \E a \in BotAnswers : AuthorizeBot(a)
    \/ \E a \in SyncAnswers : Sync(a)

SpecAuth == InitAuth /\ [][NextAuth]_vars


\* a step of start() in which a request was sent and answered
Answered == Len(starting'.sent) > Len(starting.sent)

\* the step raises exc to the caller of start()
Surfaced(exc) == starting'.pc = "raised" /\ starting'.exc = exc

\* the errors that the network or the server causes
ServerErrors ==
    {"ConnectError", "RPCError", "FloodWait", "PhoneNumberInvalid", "PhoneCodeInvalid",
     "FirstnameInvalid", "PasswordHashInvalid", "PhoneNumberUnoccupied",
     "PhoneNumberOccupied"} \cup MigrateErrors

C24_FreshStartPersists ==
    /\ ~starting.load_session_hook
    /\ ~starting.save_session_hook
    /\ starting.pc \in {"raised", "started"}
    /\ starting.exc \notin ServerErrors
    => starting.disk.exists /\ starting.auth_key # NoKey


(***************************************************************************)
(* The auxiliary sessions of concurrent downloads on a started client.     *)
(***************************************************************************)
NextMedia ==
    \/ \E c \in CallIds, dc_id \in DataCenters : MediaEnter(c, dc_id)
    \/ \E c \in CallIds : MediaLookup(c)
    \/ \E c \in CallIds, ok \in BOOLEAN : MediaSetup(c, ok)
    \/ \E c \in CallIds, redirect \in BOOLEAN : MediaRequest(c, redirect)

SpecMedia == Started /\ [][NextMedia]_vars

\* the calls that are between the acquisition and the release of the lock
Holders == {c \in CallIds : fetching.calls[c].pc \in Locked}

\* C26: under any interleaving of concurrent get_file calls, direct or CDN,
\* at most one auxiliary session is created and stored per data center while
\* the client stays started: lookup and creation happen under the lock (one
\* call at a time, and a session is only created while the map has none for
\* the data center), and a call that finds a session in the map uses it
C26_OneSessionPerDc ==
    /\ \A d \in DOMAIN fetching.stores :
           /\ Len(fetching.stores[d]) <= 1
           /\ d \in DOMAIN media_sessions <=> fetching.stores[d] # <<>>
    /\ Cardinality(Holders) <= 1
    /\ \A c \in Holders : media_sessions_lock = c
    /\ \A i \in 1..Len(fetching.created) : ~fetching.created[i].known
    /\ \A c \in CallIds :
           fetching.calls[c].pc \in {"request", "done"} =>
               fetching.calls[c].session = Head(fetching.stores[fetching.calls[c].target])

\* two calls for the same foreign data center were both redirected to the CDN:
\* one session was created for each data center, and both calls use them
C26_Witness ==
    /\ \A c \in CallIds :
           /\ fetching.calls[c].pc = "done"
           /\ fetching.calls[c].cdn
           /\ fetching.calls[c].dc_id # OwnDc
    /\ Len(fetching.created) = 2


(***************************************************************************)
(* The updates worker alone on a started client: the session hands over    *)
(* one envelope at a time, and the server answers the difference fetches.  *)
(***************************************************************************)
\* a user and a channel with access hashes, as envelopes and differences
\* carry them
SomeUser ==
    [type |-> "User", id |-> 1, access_hash |-> 11, username |-> <<"B", "o", "b">>,
     phone |-> <<"3", "9">>]

SomeChannel ==
    [type |-> "Channel", id |-> 1, access_hash |-> 12, username |-> <<"b", "o", "b">>,
     phone |-> NoneStr]

\* a new message of the channel, and an update of no channel
ChannelMessage == Update("UpdateNewChannelMessage", 1, 5, 1, FALSE)

ReadHistory == Update("UpdateReadHistoryInbox", None, 3, 1, FALSE)

EnvelopeInputs ==
    {Updates(<<SomeUser>>, <<SomeChannel>>, <<ChannelMessage, ReadHistory>>),
     Updates(<<>>, <<>>, <<ChannelMessage>>),
     UpdateShortMessage(9, 2, 40),
     UpdateShort(ReadHistory)}

EnvelopeAnswers ==
    {NoCall, Raised, ChannelPrivate, DifferenceEmpty,
     Difference(<<SomeUser>>, <<>>, <<"m1", "m2">>, <<ReadHistory>>),
     Difference(<<>>, <<>>, <<>>, <<ReadHistory, ChannelMessage>>),
     Difference(<<>>, <<>>, <<>>, <<>>)}

\* the session hands over an envelope when the worker waits on an empty queue
EnqueueOne(envelope) ==
    /\ updates_worker_task = "idle"
    /\ updates_queue = <<>>
    /\ EnqueueUpdates(envelope)

NextEnvelope ==
    \/ \E envelope \in EnvelopeInputs : EnqueueOne(envelope)
    \/ UpdatesGet
    \/ \E answer \in EnvelopeAnswers : UpdatesCalled(answer)

SpecEnvelope == Started /\ [][NextEnvelope]_vars


\* the keys of the primary map that fetch_peers writes for the entities
KeysOf(entities) == DOMAIN Written(entities).id

\* the step of the worker in which it awaited a difference fetch
Fetching == Len(updCalls') = Len(updCalls) + 1

\* what the queue of the dispatcher gained in the step
Gained ==
    SubSeq(dispatcher_updates_queue', Len(dispatcher_updates_queue) + 1,
           Len(dispatcher_updates_queue'))

\* C27: the users and chats of a combined envelope are in the peer directory
\* before its first update is processed or published, and so whenever a peer
\* is resolved while an update of the envelope is processed
C27_EntitiesFirst ==
    [][/\ updates_worker_task' = "busy" /\ updCur'.type = "Updates" =>
              KeysOf(updCur'.users \o updCur'.chats) \subseteq DOMAIN peers_by_id'
       /\ updates_worker_task = "idle" /\ updates_worker_task' = "busy" =>
              /\ Gained = <<>>
              /\ channels_pts' = channels_pts
              /\ updCalls' = updCalls]_vars

\* the worker holds an envelope with a user and a channel, has processed none
\* of its updates, and both are in the directory
C27_Witness ==
    /\ updates_worker_task = "busy"
    /\ updCur.type = "Updates"
    /\ updIdx = 1
    /\ dispatcher_updates_queue = <<>>
    /\ updCur.users = <<SomeUser>>
    /\ {1, ChannelPeerId(1)} \subseteq DOMAIN peers_by_id

\* C28: when the channel-difference fetch made for a new channel message
\* fails with ChannelPrivate, the update is published with the envelope's own
\* users and chats unless its pts was seen before, and the worker goes on to
\* the next update of the envelope
C28_PrivateKeepsUpdate ==
    [][Fetching /\ updCalls'[Len(updCalls')].answer = ChannelPrivate =>
          LET update == updCur.updates[updIdx]
          IN  /\ updCur' = updCur
              /\ Gained = IF Tracked(update) /\ Seen(update.channel_id, update.pts)
                          THEN <<>>
                          ELSE <<[update |-> update, users |-> updCur.users,
                                  chats |-> updCur.chats]>>
              /\ updIdx' = updIdx + 1
              /\ updates_worker_task' =
                     IF updIdx < Len(updCur.updates) THEN "busy" ELSE "idle"]_vars

\* after a ChannelPrivate the channel message was published with the
\* envelope's user, and so was the update that follows it in the envelope
C28_Witness ==
    /\ Len(updCalls) = 1
    /\ updCalls[1].answer = ChannelPrivate
    /\ Len(dispatcher_updates_queue) = 2
    /\ dispatcher_updates_queue[1] =
           [update |-> ChannelMessage, users |-> <<SomeUser>>, chats |-> <<SomeChannel>>]
    /\ dispatcher_updates_queue[2].update = ReadHistory

\* C29: for a short message envelope the worker sends one GetDifference with
\* pts = pts - pts_count, the envelope's date and qts = -1, and publishes at
\* most one item: the first new message, as a new-message update with the
\* envelope's pts and pts_count and the difference's users and chats, if there
\* is one, else the first other update if there is one, else nothing
C29_ShortMessage ==
    [][updates_worker_task = "busy" /\ updCur.type = "UpdateShortMessage"
       /\ updates_worker_task' # "busy" =>
          /\ Fetching
          /\ updCalls'[Len(updCalls')].fetch =
                 [request |-> "GetDifference", pts |-> updCur.pts - updCur.pts_count,
                  date |-> updCur.date, qts |-> -1]
          /\ LET a == updCalls'[Len(updCalls')].answer
             IN  Gained =
                     IF a.res = "diff" /\ a.new_messages # <<>>
                     THEN <<[update |-> [type |-> "UpdateNewMessage",
                                         message |-> a.new_messages[1],
                                         pts |-> updCur.pts,
                                         pts_count |-> updCur.pts_count],
                             users |-> a.users, chats |-> a.chats]>>
                     ELSE IF a.res = "diff" /\ a.other_updates # <<>>
                     THEN <<[update |-> a.other_updates[1], users |-> <<>>,
                             chats |-> <<>>]>>
                     ELSE <<>>]_vars

\* a difference with two new messages was asked for from pts 7 and its first
\* message was published with the envelope's pts 9
C29_Witness ==
    /\ Len(updCalls) = 1
    /\ updCalls[1].fetch.request = "GetDifference"
    /\ updCalls[1].fetch.pts = 7
    /\ updCalls[1].answer.res = "diff"
    /\ Len(updCalls[1].answer.new_messages) = 2
    /\ Len(dispatcher_updates_queue) = 1
    /\ dispatcher_updates_queue[1].update.message = "m1"
    /\ dispatcher_updates_queue[1].update.pts = 9


\* the reader of save_file waits at "await queue.put(rpc)" on a full queue
ReaderBlocked == saving.pc = "put" /\ Len(saving.queue) = QueueSize

\* C30: during an upload the work queue never holds more than 16 items, so
\* that the reader has read at most 16 parts, and the one it is blocked on,
\* more than the workers have taken; on a full queue the reader waits until a
\* worker takes an item
C30_BoundedQueue ==
    [][/\ Len(saving'.queue) <= QueueSize
       /\ saving'.reads <= Len(saving'.sent) + QueueSize + 1
       /\ ReaderBlocked =>
              /\ saving'.pc = "put"
              /\ saving'.rpc = saving.rpc
              /\ saving'.queue = Tail(saving.queue)
              /\ saving'.sent = Append(saving.sent, Head(saving.queue))]_vars

\* sixteen parts are queued, none was taken, and the reader holds the
\* seventeenth
C30_Witness ==
    /\ ReaderBlocked
    /\ saving.sent = <<>>
    /\ saving.rpc # QueueNone
    /\ saving.rpc.file_part = QueueSize

(***************************************************************************)
(* Claims on the progress reports of save_file.                            *)
(***************************************************************************)
\* the parts the call has put on the queue so far
Enqueued == saving.file_part - saving.args.file_part

\* a call without an identifier and with a progress callback is under way or
\* has ended
Reporting ==
    /\ saving.pc \in {"start", "read", "put", "finally", "returned", "raised"}
    /\ saving.args.file_id = None
    /\ saving.args.progress

\* the call has ended with a file descriptor
Described == saving.pc = "returned" /\ saving.ret # NoResult

\* the reports are strictly increasing and none exceeds the file size
Increasing(reports, file_size) ==
    /\ \A i \in 1..Len(reports) : reports[i].current <= file_size
    /\ \A i \in 1..(Len(reports) - 1) : reports[i].current < reports[i + 1].current

\* C31 as stated: in an upload without identifier the progress callback is
\* invoked once per part, after the part was put on the queue, with
\* current = min(number of parts enqueued so far * 512 KiB, file size) and
\* total = file size; the values are strictly increasing, never exceed the
\* file size, and the last one equals the file size
C31_ProgressCountsParts ==
    Reporting =>
        /\ Len(saving.progressed) = Enqueued
        /\ \A i \in 1..Len(saving.progressed) :
               saving.progressed[i] =
                   [current |-> Min(i * part_size, saving.args.file_size),
                    total |-> saving.args.file_size]
        /\ Increasing(saving.progressed, saving.args.file_size)
        /\ (saving.pc \in {"returned", "raised"} /\ saving.progressed # <<>>) =>
               saving.progressed[Len(saving.progressed)].current = saving.args.file_size

\* C31, amended: in an upload without identifier the progress callback is
\* invoked once per part, after the part was put on the queue, with
\* current = min((file_part argument + number of parts enqueued so far) *
\* 512 KiB, file size) and total = file size; the values are strictly
\* increasing and never exceed the file size, and when the call returns a
\* file descriptor after at least one report the last one equals the file
\* size
C31_ProgressPosition ==
    Reporting =>
        /\ Len(saving.progressed) = Enqueued
        /\ \A i \in 1..Len(saving.progressed) :
               saving.progressed[i] =
                   [current |-> Min((saving.args.file_part + i) * part_size,
                                    saving.args.file_size),
                    total |-> saving.args.file_size]
        /\ Increasing(saving.progressed, saving.args.file_size)
        /\ (Described /\ saving.progressed # <<>>) =>
               saving.progressed[Len(saving.progressed)].current = saving.args.file_size

\* a big file uploaded from its second part on was reported part by part
\* and a file descriptor was returned
C31_Witness ==
    /\ Reporting
    /\ Described
    /\ saving.args.file_part = 1
    /\ saving.args.file_size = BigLimit + 1
    /\ Len(saving.progressed) = saving.file_total_parts - 1

(***************************************************************************)
(* Claims on the requests of get_file.                                     *)
(***************************************************************************)
\* the requests the call of get_file has sent so far
Requests == getting.sent

\* the i-th request was answered by the CDN with "re-upload needed"
Needed(sent, i) == sent[i].answer = CdnFileReuploadNeeded

\* every "re-upload needed" answer in the list is followed by one re-upload
\* request on the origin session, every re-upload request follows such an
\* answer, and the request after a re-upload that returned is the chunk
\* request of the same offset on the CDN session
RetriedInPlace(sent) ==
    /\ \A i \in 1..Len(sent) :
           Needed(sent, i) =>
               /\ sent[i].fn = "upload.GetCdnFile"
               /\ i + 1 <= Len(sent)
               /\ sent[i + 1].fn = "upload.ReuploadCdnFile"
               /\ sent[i + 1].on = "session"
               /\ i + 2 <= Len(sent) =>
                      /\ sent[i + 1].answer = FileHashes
                      /\ sent[i + 2].fn = "upload.GetCdnFile"
                      /\ sent[i + 2].on = "cdn_session"
                      /\ sent[i + 2].offset = sent[i].offset
    /\ \A i \in 1..Len(sent) :
           sent[i].fn = "upload.ReuploadCdnFile" => i > 1 /\ Needed(sent, i - 1)

\* C32: each "re-upload needed" answer of the CDN triggers exactly one
\* re-upload request on the origin session, after which the chunk request is
\* repeated at the same offset: the offset is not advanced, nothing is
\* written and no progress is reported for that answer
C32_ReuploadRetriesOffset ==
    [][/\ RetriedInPlace(getting'.sent)
       /\ Reuploads(getting') = Reuploads(getting) + 1 =>
              /\ Len(getting'.sent) = Len(getting.sent) + 2
              /\ getting'.chunks = getting.chunks
              /\ getting'.reported = getting.reported
              /\ getting'.scratch \in {getting.scratch, NoFile}
              /\ getting'.sent[Len(getting'.sent)].answer = FileHashes =>
                     /\ getting'.pc = "cdn"
                     /\ getting'.offset = getting.offset
                     /\ getting'.offset = getting'.sent[Len(getting.sent) + 1].offset
                     /\ getting'.scratch = getting.scratch]_vars

\* C32 witness: after the first chunk the CDN asked for a re-upload twice,
\* and then delivered the chunk of that offset
C32_Witness ==
    \E i \in 1..Len(Requests) :
        /\ i + 4 <= Len(Requests)
        /\ Needed(Requests, i)
        /\ Needed(Requests, i + 2)
        /\ Requests[i].offset = limit
        /\ Requests[i + 4] = GetCdnFile(limit, CdnFile)

\* a call of get_file whose first request was answered with a file is under
\* way (at the head of its loop) or has returned without an exception
Direct ==
    /\ getting.route = "direct"
    /\ \/ getting.pc = "direct"
       \/ getting.pc = "returned" /\ getting.exc = ""

\* the content of the first n answers of the list, one after the other
RECURSIVE Content(_, _)
Content(sent, n) ==
    IF n = 0 THEN <<>> ELSE Content(sent, n - 1) \o sent[n].answer.bytes

\* the requests of a direct download are GetFile requests on the session of
\* the file's data center at the offsets 0, 1 MiB, 2 MiB, ...; every answer
\* but the last was not empty and the scratch file holds their content in the
\* order of the requests; no request follows an empty answer, and the call
\* returns, with the name of the scratch file, on an empty answer only
DirectInOrder ==
    Direct =>
        /\ Requests # <<>>
        /\ \A i \in 1..Len(Requests) :
               /\ Requests[i].fn = "upload.GetFile"
               /\ Requests[i].on = "session"
               /\ Requests[i].offset = (i - 1) * 1024 * 1024
               /\ i < Len(Requests) => Requests[i].answer.bytes # <<>>
        /\ getting.r = Requests[Len(Requests)].answer
        /\ getting.offset = (Len(Requests) - 1) * 1024 * 1024
        /\ getting.scratch = FileOf(Content(Requests, Len(Requests) - 1))
        /\ getting.pc = "returned" => getting.r.bytes = <<>>
        /\ getting.pc = "returned" => getting.ret = getting.file_name /\ getting.ret # ""

\* the direct download returned and its first answer was empty
FirstEmpty ==
    /\ Direct
    /\ getting.pc = "returned"
    /\ Len(Requests) = 1

\* C33 as stated: a direct download requests the offsets 0, 1 MiB, 2 MiB, ...
\* in increasing order, one request at a time, appends each non-empty chunk
\* to the scratch file in that order, and terminates exactly at the first
\* zero-length chunk, returning the scratch file; a download whose first
\* chunk is zero-length produces no scratch file and an empty result
C33_DirectFirstEmptyNoFile ==
    /\ DirectInOrder
    /\ FirstEmpty => getting.scratch = NoFile /\ getting.ret = ""

\* C33, amended: a direct download requests the offsets 0, 1 MiB, 2 MiB, ...
\* in increasing order, one request at a time, appends each non-empty chunk
\* to the scratch file in that order, and returns the scratch file exactly at
\* the first zero-length chunk; a download whose first chunk is zero-length
\* returns an empty scratch file
C33_DirectFirstEmptyFile ==
    /\ DirectInOrder
    /\ FirstEmpty => getting.scratch = FileOf(<<>>) /\ getting.ret = getting.file_name

\* C33 witness: a full chunk, a short chunk of other content and an empty
\* chunk were answered, and the scratch file holds the two chunks in order
C33_Witness ==
    /\ Direct
    /\ getting.pc = "returned"
    /\ Len(Requests) = 3
    /\ Requests[3] = GetFileCall(2 * 1024 * 1024, File(<<>>))
    /\ getting.scratch = FileOf(Genuine(LimitUnits) \o <<"a">>)

(***************************************************************************)
(* Claims on the tasks and sessions over start/stop cycles.                *)
(***************************************************************************)
\* the download worker tasks that have not returned
RunningDownloadWorkers == {w \in Workers : dlWorker[w] \in {"idle", "busy", "transfer"}}

\* the updates worker task has not returned
UpdatesWorkerRuns == updates_worker_task \in {"idle", "busy"}

\* the last call on the client was start() and it returned
StartReturned == lastOp = Outcome("start", NoArg, "", NoArg, 0)

\* the last call on the client was stop() and it returned
StopReturned == lastOp = Outcome("stop", NoArg, "", NoArg, 0)

\* C34: after start() returns exactly DOWNLOAD_WORKERS download worker tasks
\* and one updates worker task are running; after stop() returns none of them
\* is running and the task list and the media-session map are empty; over
\* any number of start and stop calls (restart() is stop() followed by
\* start()) the task list never holds more than DOWNLOAD_WORKERS tasks, and
\* start() creates its tasks only when no task of an earlier cycle is left
C34_TasksPerCycle ==
    [][/\ StartReturned' =>
              /\ Len(download_worker_tasks') = DOWNLOAD_WORKERS
              /\ {download_worker_tasks'[i] : i \in 1..DOWNLOAD_WORKERS}
                     = RunningDownloadWorkers'
              /\ Cardinality(RunningDownloadWorkers') = DOWNLOAD_WORKERS
              /\ UpdatesWorkerRuns'
       /\ StopReturned' =>
              /\ download_worker_tasks' = <<>>
              /\ RunningDownloadWorkers' = {}
              /\ ~UpdatesWorkerRuns'
              /\ media_sessions' = EmptyMap
       /\ Len(download_worker_tasks') <= DOWNLOAD_WORKERS
       /\ (StartReturned' /\ ~StartReturned) =>
              /\ download_worker_tasks = <<>>
              /\ RunningDownloadWorkers = {}
              /\ ~UpdatesWorkerRuns
              /\ media_sessions = EmptyMap]_vars

\* C34 witness: the client was started, its workers served a download on a
\* media session and an update, and stop() has returned
C34_Witness ==
    /\ StopReturned
    /\ doneEvents # {}
    /\ dispatcher_updates_queue # <<>>
    /\ session = "stopped"

(***************************************************************************)
(* The download workers under fair scheduling: the event loop runs every   *)
(* task that can go on, and every request awaited by a worker is answered  *)
(* or fails.  Clients are started and stopped, requests are enqueued at    *)
(* any time.                                                               *)
(***************************************************************************)
NextWorkers ==
    \/ Start
    \/ Stop
    \/ \E d \in DataCenters : EnqueueDownload(d)
    \/ DownloadWorker
    \/ UpdatesGet

SpecWorkers ==
    /\ Init
    /\ [][NextWorkers]_vars
    /\ \A w \in Workers : WF_vars(DownloadSteps(w))

\* the download request id is on the queue ahead of every None that stop()
\* has put there, and a download worker task is there to take it
QueuedAhead(id) ==
    /\ RunningDownloadWorkers # {}
    /\ \E i \in 1..Len(download_queue) :
           /\ download_queue[i] # Poison
           /\ download_queue[i].id = id
           /\ \A j \in 1..(i - 1) : download_queue[j] # Poison

\* the worker w ends its work on a request in this step
Finishes(w) == dlWorker[w] \in {"busy", "transfer"} /\ dlWorker'[w] # dlWorker[w]

StartRaises == startPc = "sync" /\ lastOp'.op = "start" /\ lastOp'.err = "RPCError"

\* C36: when the authorization or the first synchronisation of start() fails,
\* the error is raised with is_started false and the main session stopped,
\* no updates worker and no download worker has been started, and a later
\* start() is permitted
C36_FailedStartLeavesStopped ==
    [][StartRaises =>
          /\ ~is_started'
          /\ session' = "stopped"
          /\ startPc' = "idle"
          /\ updates_worker_task' = updates_worker_task
          /\ download_worker_tasks' = download_worker_tasks
          /\ dlWorker' = dlWorker
          /\ ~UpdatesWorkerRuns'
          /\ RunningDownloadWorkers' = {}
          /\ StartAllowed']_vars

\* a start() failed after an earlier start() and stop() had run workers, and
\* the client is stopped with no worker running
C36_Witness ==
    /\ lastOp.op = "start" /\ lastOp.err = "RPCError"
    /\ ~is_started /\ session = "stopped"
    /\ \A w \in Workers : dlWorker[w] = "done"
    /\ download_worker_tasks = <<>>

(***************************************************************************)
(* C39: the order of the migrate handlers                                  *)
(***************************************************************************)
\* start() is inside a migrate handler
Migrating == starting.pc \in {"migrate_stop", "migrate_auth", "migrate_start"}

\* the step is one of a migrate handler and no call of it raised
Handled == Migrating /\ starting' # starting /\ starting'.pc # "raised"

\* the request a migrate error answered, when its handler has returned
Redirected ==
    /\ starting.pc \in {"send_code", "bot"}
    /\ starting.sent # <<>>
    /\ starting.answer.err \in MigrateErrors

\* C39: in authorize_user's SendCode and in authorize_bot a migrate error is
\* handled in this order: the session is stopped, dc_id becomes the data
\* center of the error, a key is derived for it, a session is created and
\* started, and only then the same request is sent again; never are two main
\* sessions running, and is_started stays set while the error is handled
C39_MigrateOrder ==
    [][/\ starting.running <= 1
       /\ Migrating => starting.is_started
       /\ Migrating /\ Answered => FALSE
       /\ Handled /\ starting.pc = "migrate_stop" =>
              /\ starting'.pc = "migrate_auth"
              /\ starting'.session.state = "stopped"
              /\ starting'.running = 0
              /\ starting'.stopped = starting.stopped + 1
              /\ starting'.dc_id = starting.answer.x
              /\ starting'.auth_key = starting.auth_key
              /\ starting'.created = starting.created
       /\ Handled /\ starting.pc = "migrate_auth" =>
              /\ starting'.pc = "migrate_start"
              /\ starting'.dc_id = starting.answer.x
              /\ starting'.auth_key = Negotiated(starting.answer.x)
              /\ starting'.created = starting.created + 1
              /\ starting'.session =
                     [StartedSession(starting.answer.x, Negotiated(starting.answer.x))
                         EXCEPT !.state = "created"]
              /\ starting'.running = 0
       /\ Handled /\ starting.pc = "migrate_start" =>
              /\ starting'.pc = (IF starting.is_bot THEN "bot" ELSE "send_code")
              /\ starting'.session =
                     StartedSession(starting.answer.x, Negotiated(starting.answer.x))
              /\ starting'.running = 1
              /\ starting'.is_started
       /\ Redirected /\ Answered =>
              /\ starting'.sent = Append(starting.sent, starting.sent[Len(starting.sent)])
              /\ starting.session =
                     StartedSession(starting.answer.x, Negotiated(starting.answer.x))
              /\ starting.running = 1]_vars

\* a bot was redirected twice: two sessions were stopped and two created, one
\* runs, and ImportBotAuthorization was sent a third time and accepted
C39_Witness ==
    /\ starting.is_bot
    /\ starting.sent =
          <<"ImportBotAuthorization", "ImportBotAuthorization", "ImportBotAuthorization">>
    /\ starting.stopped = 2 /\ starting.created = 2
    /\ starting.running = 1
    /\ starting.answer.err = ""
    /\ starting.is_started

(***************************************************************************)
(* C37, C38: what save_file has done when it ends                          *)
(***************************************************************************)
\* a call of save_file that created its pool has ended
SaveEnded == saving.pc \in {"returned", "raised"} /\ saving.pool # <<>>

\* the requests that are on the queue
PartsIn(queue) == Cardinality({i \in 1..Len(queue) : queue[i] # QueueNone})

\* the workers that have returned
WorkersBack(s) == Len(s.workers) - s.running

\* the None values that are on the queue
NonesIn(queue) == Len(queue) - PartsIn(queue)

\* C37: when save_file ends after its pool was created (by returning a
\* descriptor, by returning after a missing part, after a logged error or by
\* raising the stop signal), every part that was put on the queue was taken
\* and handed to a session, every worker has returned after one None each,
\* and every session of the pool is stopped
C37_PoolWoundDown ==
    [][/\ ~SaveIdle =>
              /\ Len(saving'.sent) + PartsIn(saving'.queue)
                     >= Len(saving.sent) + PartsIn(saving.queue)
              /\ WorkersBack(saving') + NonesIn(saving'.queue) = saving'.poisons
       /\ SaveEnded' =>
              /\ saving'.queue = <<>>
              /\ saving'.rpc = QueueNone
              /\ \A i \in 1..Len(saving'.sent) : saving'.sent[i] # QueueNone
              /\ saving'.running = 0
              /\ saving'.poisons = Len(saving'.workers)
              /\ saving'.pool = [i \in 1..PoolSize(saving'.is_big) |-> "stopped"]]_vars

\* the upload of a big file was stopped by its progress callback after two
\* parts: both were handed to a session, the twelve workers returned and the
\* three sessions are stopped
C37_Witness ==
    /\ saving.pc = "raised"
    /\ saving.exc = "StopTransmission"
    /\ Len(saving.sent) = 2
    /\ Len(saving.workers) = 12 /\ saving.poisons = 12
    /\ saving.pool = <<"stopped", "stopped", "stopped">>

\* the requests for the parts 0 .. file_total_parts-1 of the call's file, in
\* this order: their part numbers
AllParts == [i \in 1..saving.file_total_parts |-> i - 1]

\* the part numbers of the requests handed to the sessions, in the order in
\* which they were taken from the queue, which is the order of the puts
PartsSent == [i \in 1..Len(saving.sent) |-> saving.sent[i].file_part]

\* C38: when save_file returns a file descriptor, each part
\* 0 .. file_total_parts-1 was put on the queue exactly once, in increasing
\* order, and the send of every one of them completed without raising
C38_DescriptorMeansUploaded ==
    Described => PartsSent = AllParts /\ saving.failed = 0

(***************************************************************************)
(* C40: the sessions of foreign data centers in media_sessions             *)
(***************************************************************************)
\* the data centers other than the client's own whose session the map
\* holds, the CDN apart (its sessions import no authorization) and apart from
\* a session whose ImportAuthorization is awaited at this moment
StoredForeign ==
    {d \in DOMAIN media_sessions :
        /\ d \notin {OwnDc, CdnDc}
        /\ \A c \in CallIds : ~(fetching.calls[c].pc = "import"
                                   /\ fetching.calls[c].target = d)}

\* the step in which the session setup of call c raises
SetupFails(c) ==
    fetching.calls[c].pc \in Locked /\ fetching'.calls[c].pc = "raised"

\* C40: every session that media_sessions holds for a data center other than
\* the client's own was started and has imported the exported authorization,
\* and a get_file whose session setup fails leaves no session for its data
\* center in the map
C40_StoredMeansAuthorized ==
    [][/\ \A d \in StoredForeign :
              /\ media_sessions[d] = "started"
              /\ Head(fetching.stores[d]) \in fetching.imported
       /\ \A c \in CallIds :
              SetupFails(c) => fetching.calls[c].target \notin DOMAIN media_sessions']_vars

====
